---------------------------- MODULE Spec2Model ----------------------------
(***************************************************************************)
(* Model of the aging-research collection agents (aging_agent_pubmed.py,   *)
(* aging_agent_europepmc.py; the arXiv and bioRxiv agents share the        *)
(* PubMed agent's classifier, extractor, processor and run loop) and of    *)
(* the aggregation script aggregate_results.py.                            *)
(*                                                                         *)
(* Texts are sequences of one-character strings, model responses are       *)
(* sequences of lexical tokens, CSV cells are strings, and parsed JSON /   *)
(* pandas values are tagged records [k |-> kind, v |-> value].             *)
(***************************************************************************)
EXTENDS Integers, Sequences, FiniteSets, TLC

(***************************************************************************)
(* Bounds of the model.                                                    *)
(***************************************************************************)
MaxTags == 2        \* items in the theory_tags array of a model response
MaxEdits == 2       \* keys in which a model's answer dictionary departs from a base one
MaxRows == 2        \* data rows over all per-run export files of one table
MaxFiles == 2       \* run directories that may hold export files
MaxPapers == 2      \* candidates returned by one search
MaxRuns == 2        \* run() calls on one agent, and runs of the aggregation script
MaxAttempts == 2    \* process_paper calls in one output directory
MaxAgents == 2     \* agent objects constructed in one output directory
MaxWords == 2      \* words of a text given to _infer_theories

(***************************************************************************)
(* Generic sequence helpers (Python str / list primitives).                *)
(***************************************************************************)
Range(s) == {s[i] : i \in 1..Len(s)}

RECURSIVE Concat(_)
Concat(ss) == IF ss = <<>> THEN <<>> ELSE Head(ss) \o Concat(Tail(ss))

\* s[a:b] of Python with 1-based inclusive bounds; empty when a > b
Slice(s, a, b) == IF a > b THEN <<>> ELSE SubSeq(s, a, b)

\* needle in hay (substring test)
Contains(hay, needle) ==
    \E i \in 1..(Len(hay) - Len(needle) + 1) :
        SubSeq(hay, i, i + Len(needle) - 1) = needle

\* str.find / str.rfind of a one-token needle; 0 stands for Python's -1
Find(s, tok) ==
    IF \E i \in 1..Len(s) : s[i] = tok
    THEN CHOOSE i \in 1..Len(s) : s[i] = tok /\ \A j \in 1..(i-1) : s[j] # tok
    ELSE 0

RFind(s, tok) ==
    IF \E i \in 1..Len(s) : s[i] = tok
    THEN CHOOSE i \in 1..Len(s) : s[i] = tok /\ \A j \in (i+1)..Len(s) : s[j] # tok
    ELSE 0

StartsWith(s, tok) == Len(s) > 0 /\ s[1] = tok

\* str.strip(): drop leading and trailing whitespace tokens
RECURSIVE LStrip(_)
LStrip(s) == IF Len(s) > 0 /\ s[1] = "w" THEN LStrip(Tail(s)) ELSE s

RECURSIVE RStrip(_)
RStrip(s) == IF Len(s) > 0 /\ s[Len(s)] = "w" THEN RStrip(SubSeq(s, 1, Len(s) - 1)) ELSE s

Strip(s) == RStrip(LStrip(s))

\* str.split(sep) for a one-token separator: always at least one part
RECURSIVE Split(_, _)
Split(s, sep) ==
    LET i == Find(s, sep)
    IN  IF i = 0 THEN <<s>>
        ELSE <<Slice(s, 1, i - 1)>> \o Split(Slice(s, i + 1, Len(s)), sep)

(***************************************************************************)
(* Paper text.  A text is None or a str; a str is its leading characters   *)
(* `chars` followed by `pad` further characters that match no keyword.     *)
(***************************************************************************)
NoneText == [isNone |-> TRUE, chars |-> <<>>, pad |-> 0]
Str(cs, p) == [isNone |-> FALSE, chars |-> cs, pad |-> p]

TextLen(text) == Len(text.chars) + text.pad

\* str.lower() on the characters the sample texts use
LowerChar(c) ==
    CASE c = "T" -> "t"
      [] c = "R" -> "r"
      [] c = "O" -> "o"
      [] c = "S" -> "s"
      [] c = "D" -> "d"
      [] c = "N" -> "n"
      [] c = "A" -> "a"
      [] OTHER -> c

Lower(cs) == [i \in 1..Len(cs) |-> LowerChar(cs[i])]

(***************************************************************************)
(* Values.  A JSON / Python value is [k |-> kind, v |-> Int]:              *)
(*   "num"  a number; for a confidence v is in hundredths (60 is 0.6)      *)
(*   "str"  a string (v identifies it; a theory name is identified by      *)
(*          its taxonomy id, 0 being "General Aging Research")             *)
(*   "list" a list of v strings                                            *)
(*   "null" None, "missing" an absent dictionary key                       *)
(***************************************************************************)
Num(n) == [k |-> "num", v |-> n]
StrV(n) == [k |-> "str", v |-> n]
ListV(n) == [k |-> "list", v |-> n]
NullV == [k |-> "null", v |-> 0]
MissingV == [k |-> "missing", v |-> 0]

\* self.theories: the ten taxonomy ids
TheoryIds == 1..10

TheoryTag(id, name, conf, ev, src) ==
    [theory_id |-> id, theory_name |-> name, confidence |-> conf,
     evidence_snippets |-> ev, source |-> src]

\* Result of a call: it either raised or returned a value
Raised == [raised |-> TRUE, tags |-> <<>>]
Returned(ts) == [raised |-> FALSE, tags |-> ts]

(***************************************************************************)
(* _infer_theories: the keyword table, in dictionary order.                *)
(***************************************************************************)
keywords == <<
    [id |-> 1,
     kws |-> << <<"f","r","e","e"," ","r","a","d","i","c","a","l">>,
              <<"r","o","s">>,
              <<"r","e","a","c","t","i","v","e"," ","o","x","y","g","e","n">>,
              <<"o","x","i","d","a","t","i","v","e"," ","s","t","r","e","s","s">> >>],
    [id |-> 2,
     kws |-> << <<"t","e","l","o","m","e","r","e">>,
              <<"t","e","l","o","m","e","r","a","s","e">> >>],
    [id |-> 3,
     kws |-> << <<"m","i","t","o","c","h","o","n","d","r","i","a">>,
              <<"m","i","t","o","c","h","o","n","d","r","i","a","l">> >>],
    [id |-> 4,
     kws |-> << <<"s","e","n","e","s","c","e","n","c","e">>,
              <<"s","e","n","e","s","c","e","n","t">> >>],
    [id |-> 8,
     kws |-> << <<"m","t","o","r">>,
              <<"n","u","t","r","i","e","n","t"," ","s","e","n","s","i","n","g">>,
              <<"i","n","s","u","l","i","n">> >>],
    [id |-> 9,
     kws |-> << <<"d","n","a"," ","d","a","m","a","g","e">>,
              <<"g","e","n","o","m","i","c"," ","i","n","s","t","a","b","i","l","i","t","y">> >>] >>

\* the inner loop with its break: does some keyword of the entry occur?
KeywordHit(entry, text_lower) ==
    \E j \in 1..Len(entry.kws) : Contains(text_lower, entry.kws[j])

SentinelTag == TheoryTag(Num(0), StrV(0), Num(50), ListV(1), "default")

\* a keyword loop without its break: one tag per keyword that occurs
RECURSIVE InferFromNoBreak(_, _)
InferFromNoBreak(i, text_lower) ==
    IF i > Len(keywords) THEN <<>>
    ELSE [j \in 1..Cardinality({n \in 1..Len(keywords[i].kws) :
                                   Contains(text_lower, keywords[i].kws[n])}) |->
             TheoryTag(Num(keywords[i].id), StrV(keywords[i].id), Num(60),
                       ListV(1), "keyword_inference")]
         \o InferFromNoBreak(i + 1, text_lower)

RECURSIVE InferFrom(_, _)
InferFrom(i, text_lower) ==
    IF i > Len(keywords) THEN <<>>
    ELSE (IF KeywordHit(keywords[i], text_lower)
          THEN <<TheoryTag(Num(keywords[i].id), StrV(keywords[i].id), Num(60),
                           ListV(1), "keyword_inference")>>
          ELSE <<>>) \o InferFrom(i + 1, text_lower)

\* _infer_theories(text); text.lower() raises on None
_infer_theories(text) ==
    IF text.isNone THEN Raised
    ELSE LET tags == InferFrom(1, Lower(text.chars))
         IN  Returned(IF tags = <<>> THEN <<SentinelTag>> ELSE tags)

(***************************************************************************)
(* Model responses.  The response text is a token sequence:                *)
(*   "fence" a fence marker (three backticks), "json" the word json, "w" whitespace,           *)
(*   "p" prose without braces or backticks, "{" and "}" braces,            *)
(*   "B" the members of the JSON object the response carries,              *)
(*   "A" a whole JSON array, "N" a JSON scalar.                            *)
(* `doc` is the value that the carried JSON text denotes.                  *)
(***************************************************************************)
ObjText == <<"{", "B", "}">>

\* json.loads: the stripped text must be exactly one JSON document
JsonLoads(toks, doc) ==
    LET s == Strip(toks)
    IN  IF \/ s = ObjText /\ doc.kind = "obj"
           \/ s = <<"A">> /\ doc.kind = "arr"
           \/ s = <<"N">> /\ doc.kind = "scalar"
        THEN [ok |-> TRUE, val |-> doc]
        ELSE [ok |-> FALSE, val |-> doc]

\* A model call: it failed (any exception of client.messages.create or of
\* content[0].text) or it returned the text `toks` carrying `doc`
FailedCall == [fail |-> TRUE, toks |-> <<>>, doc |-> [kind |-> "scalar"]]
Response(toks, doc) == [fail |-> FALSE, toks |-> toks, doc |-> doc]

\* A JSON object of the classifier: theory_tags is absent, null or a list
\* of items; `other` tells whether the object has any other key
TagsDoc(tk, its, oth) == [kind |-> "obj", tagsKind |-> tk, items |-> its, other |-> oth]
\* A JSON array of items, and a JSON scalar
ArrDoc(its) == [kind |-> "arr", items |-> its]
ScalarDoc == [kind |-> "scalar"]

\* One element of a tag array: a JSON object with the four keys (each may
\* be missing), or some other JSON value
Item(id, name, conf, ev) ==
    [isDict |-> TRUE, theory_id |-> id, theory_name |-> name, confidence |-> conf, ev |-> ev]
NonDictItem ==
    [isDict |-> FALSE, theory_id |-> MissingV, theory_name |-> MissingV,
     confidence |-> MissingV, ev |-> MissingV]

PubmedFullTextLen == 1000
EpmcFullTextLen == 5000

(***************************************************************************)
(* tag_theories of the PubMed agent (the arXiv and bioRxiv agents have     *)
(* the same body).                                                         *)
(***************************************************************************)
\* the loop over the parts of text_resp split at the fence marker: the
\* first part that, stripped and
\* without a leading "json", starts with "{" replaces text_resp
RECURSIVE FencePart(_, _)
FencePart(parts, text_resp) ==
    IF parts = <<>> THEN text_resp
    ELSE LET part0 == Strip(Head(parts))
             part == IF StartsWith(part0, "json") THEN Strip(Tail(part0)) ELSE part0
         IN  IF StartsWith(part, "{") THEN part ELSE FencePart(Tail(parts), text_resp)

\* lines 336-353: strip, fenced-block extraction, first-{ / last-} scan
ExtractJson(toks) ==
    LET t0 == Strip(toks)
        t1 == IF "fence" \in Range(t0) THEN FencePart(Split(t0, "fence"), t0) ELSE t0
        start == Find(t1, "{")
        end == RFind(t1, "}")
    IN  IF ~StartsWith(t1, "{") /\ start # 0 /\ end # 0
        THEN Slice(t1, start, end)
        ELSE t1

\* tag_data["theory_id"], ["theory_name"], ["confidence"] raise on a
\* non-dict item and on a missing key
ItemRaises(it) ==
    \/ ~it.isDict
    \/ it.theory_id.k = "missing"
    \/ it.theory_name.k = "missing"
    \/ it.confidence.k = "missing"

PubmedSource(text) == IF TextLen(text) > PubmedFullTextLen THEN "full_text" ELSE "abstract"

PubmedTagOf(it, text) ==
    TheoryTag(it.theory_id, it.theory_name, it.confidence,
              IF it.ev.k = "missing" THEN ListV(0) ELSE it.ev,
              PubmedSource(text))

\* lines 355-365: result.get("theory_tags", []) and the loop over it
PubmedBuildTags(doc, text) ==
    IF doc.kind # "obj" THEN Raised
    ELSE IF doc.tagsKind = "absent" THEN Returned(<<>>)
    ELSE IF doc.tagsKind # "list" THEN Raised
    ELSE IF \E i \in 1..Len(doc.items) : ItemRaises(doc.items[i]) THEN Raised
    ELSE Returned([i \in 1..Len(doc.items) |-> PubmedTagOf(doc.items[i], text)])

tag_theories(text, outcome) ==
    IF text.isNone THEN Raised
    ELSE IF outcome.fail THEN _infer_theories(text)
    ELSE LET parsed == JsonLoads(ExtractJson(outcome.toks), outcome.doc)
             built == IF parsed.ok THEN PubmedBuildTags(parsed.val, text) ELSE Raised
         IN  IF built.raised THEN _infer_theories(text)
             ELSE IF built.tags = <<>> THEN _infer_theories(text)
             ELSE built

(***************************************************************************)
(* tag_theories of the Europe PMC agent.                                   *)
(***************************************************************************)
\* lines 294-297: the second part of the split at the fence marker,
\* without a leading json
EpmcExtractJson(toks) ==
    LET t0 == Strip(toks)
    IN  IF "fence" \in Range(t0)
        THEN LET part == Split(t0, "fence")[2]
             IN  IF StartsWith(part, "json") THEN Tail(part) ELSE part
        ELSE t0

EpmcHashable(v) == v.k # "list"
EpmcInTheories(v) == v.k = "num" /\ v.v \in TheoryIds

\* One pass of `for result in results`: "raise" when the body raises,
\* "skip" when theory_id is not a taxonomy id.  For an id of the taxonomy
\* the TheoryTag(...) call lacks the required `confidence` argument.
EpmcItemStep(it) ==
    IF ~it.isDict THEN "raise"
    ELSE IF ~EpmcHashable(it.theory_id) THEN "raise"
    ELSE IF EpmcInTheories(it.theory_id) THEN "raise"
    ELSE "skip"

EpmcDefaultTag == TheoryTag(Num(1), StrV(1), Num(30), ListV(1), "default")
EpmcErrorTag == TheoryTag(Num(1), StrV(1), Num(30), ListV(1), "error")

\* lines 299-321 after json.loads succeeded
EpmcBuildTags(doc) ==
    IF doc.kind = "scalar" THEN Raised
    ELSE IF doc.kind = "obj"
         THEN (IF doc.tagsKind = "absent" /\ ~doc.other THEN Returned(<<>>) ELSE Raised)
    ELSE IF \E i \in 1..Len(doc.items) : EpmcItemStep(doc.items[i]) = "raise" THEN Raised
    ELSE Returned(<<>>)

epmc_tag_theories(text, outcome) ==
    IF text.isNone THEN Raised
    ELSE IF outcome.fail THEN Returned(<<EpmcErrorTag>>)
    ELSE LET parsed == JsonLoads(EpmcExtractJson(outcome.toks), outcome.doc)
             built == IF parsed.ok THEN EpmcBuildTags(parsed.val) ELSE Raised
         IN  IF built.raised THEN Returned(<<EpmcErrorTag>>)
             ELSE IF built.tags = <<>> THEN Returned(<<EpmcDefaultTag>>)
             ELSE built

(***************************************************************************)
(* Inputs of the classifier: texts, tag items, documents, responses.       *)
(***************************************************************************)
\* "", "aging", "telomerase", "Telomeres across", "mTOR"
TextSamples ==
    { <<>>,
      <<"a","g","i","n","g">>,
      <<"t","e","l","o","m","e","r","a","s","e">>,
      <<"T","e","l","o","m","e","r","e","s"," ","a","c","r","o","s","s">>,
      <<"m","T","O","R">> }

Pads == {0, 1001, 5000}

StrTexts == {Str(cs, p) : cs \in TextSamples, p \in Pads}

\* metadata['abstract'] of the PubMed agent is abstract_elem.text, which is
\* None for an AbstractText element without leading text
TextsOf(pl) == IF pl = "pubmed" THEN StrTexts \cup {NoneText} ELSE StrTexts

Pipelines == {"pubmed", "arxiv", "biorxiv", "europepmc"}

Items ==
    { Item(Num(2), StrV(2), Num(90), ListV(2)),
      Item(Num(4), StrV(4), Num(90), ListV(2)),
      Item(Num(4), StrV(4), Num(60), MissingV),
      Item(Num(0), StrV(0), Num(90), ListV(2)),
      Item(Num(11), StrV(11), Num(150), ListV(2)),
      Item(StrV(7), StrV(7), StrV(9), ListV(2)),
      Item(ListV(0), StrV(2), Num(90), ListV(2)),
      Item(Num(2), StrV(2), Num(90), NullV),
      Item(Num(2), StrV(2), MissingV, ListV(2)),
      Item(Num(2), MissingV, Num(90), ListV(2)),
      Item(MissingV, StrV(2), Num(90), ListV(2)),
      NonDictItem }

RECURSIVE SeqsUpTo(_, _)
SeqsUpTo(S, n) ==
    IF n = 0 THEN {<<>>}
    ELSE LET shorter == SeqsUpTo(S, n - 1)
         IN  shorter \cup {Append(q, x) : q \in shorter, x \in S}

\* the tag arrays of at most n items
ItemLists(n) == SeqsUpTo(Items, n)

AllDocs(n) ==
    {TagsDoc("list", its, FALSE) : its \in ItemLists(n)}
    \cup {TagsDoc("absent", <<>>, o) : o \in BOOLEAN}
    \cup {TagsDoc("null", <<>>, FALSE)}
    \cup {ArrDoc(its) : its \in ItemLists(n)}
    \cup {ScalarDoc}

GoodItem == Item(Num(2), StrV(2), Num(90), ListV(2))

DocsSmall ==
    { TagsDoc("list", <<GoodItem>>, FALSE),
      TagsDoc("list", <<>>, FALSE),
      TagsDoc("absent", <<>>, FALSE),
      ArrDoc(<<GoodItem>>),
      ArrDoc(<<>>),
      ScalarDoc }

\* the text of the JSON document itself
Core(doc) ==
    CASE doc.kind = "obj" -> ObjText
      [] doc.kind = "arr" -> <<"A">>
      [] OTHER -> <<"N">>

\* bare; in a json-labelled fence after prose
ShapesSmall(c) ==
    { c,
      <<"p", "w", "fence", "json", "w">> \o c \o <<"w", "fence">> }

\* further ways a model wraps, truncates or omits the document
Shapes(c) ==
    ShapesSmall(c) \cup
    { <<"p", "w">> \o c,
      c \o <<"w", "p">>,
      <<"p", "w">> \o c \o <<"w", "p">>,
      <<"fence", "w">> \o c \o <<"w", "fence">>,
      <<"fence", "json", "w">> \o c \o <<"w", "fence">>,
      <<"p", "w", "fence", "json", "w">> \o c \o <<"w", "fence", "w", "p">>,
      <<"p", "{", "p", "}", "w">> \o c,
      <<"p", "fence", "p", "fence", "w">> \o c,
      <<"p">>,
      <<>>,
      <<"{", "B">>,
      <<"fence", "json", "w", "{", "B">> }

Outcomes(n) ==
    {FailedCall}
    \cup {Response(sh, d) : <<sh, d>> \in UNION {Shapes(Core(dd)) \X {dd} : dd \in DocsSmall}}
    \cup {Response(sh, d) : <<sh, d>> \in UNION {ShapesSmall(Core(dd)) \X {dd} : dd \in AllDocs(n)}}

(***************************************************************************)
(* extract_answers (same body in the four agents).  A dictionary of        *)
(* answers is a function from its keys to strings; a value outside every   *)
(* domain (wrong string, number, null, list) is written "Maybe".           *)
(***************************************************************************)
QKeys == {"Q1", "Q2", "Q3", "Q4", "Q5", "Q6", "Q7", "Q8", "Q9"}

valid_q1 == {"Yes, quantitatively shown", "Yes, but not shown", "No"}
valid_yes_no == {"Yes", "No"}

ValidFor(q) == IF q = "Q1" THEN valid_q1 ELSE valid_yes_no

AnswersDoc(a) == [kind |-> "obj", ans |-> a]

AllNo == [q \in QKeys |-> "No"]

XRaised == [raised |-> TRUE, ans |-> AllNo]
XReturned(a) == [raised |-> FALSE, ans |-> a]

\* lines 439-443: strip; with a fence marker keep the second part of the
\* split and drop a leading json
AnswersExtractJson(toks) ==
    LET t0 == Strip(toks)
    IN  IF "fence" \in Range(t0)
        THEN LET part == Split(t0, "fence")[2]
             IN  IF StartsWith(part, "json") THEN Tail(part) ELSE part
        ELSE t0

\* lines 447-458: answers.get(q) not in the valid list => answers[q] = "No";
\* every other key of the parsed dictionary is left as it is
Validate(a) ==
    [q \in (DOMAIN a) \cup QKeys |->
        IF q \in QKeys
        THEN (IF q \in DOMAIN a /\ a[q] \in ValidFor(q) THEN a[q] ELSE "No")
        ELSE a[q]]

\* an extractor whose validation stands after the try statement
extract_answers_unguarded(txt, oc) ==
    IF txt.isNone THEN XRaised
    ELSE IF oc.fail THEN XReturned(AllNo)
    ELSE LET parsed == JsonLoads(AnswersExtractJson(oc.toks), oc.doc)
         IN  IF ~parsed.ok THEN XReturned(AllNo)
             ELSE IF parsed.val.kind # "obj" THEN XRaised
             ELSE XReturned(Validate(parsed.val.ans))

extract_answers(txt, oc) ==
    IF txt.isNone THEN XRaised
    ELSE IF oc.fail THEN XReturned(AllNo)
    ELSE LET parsed == JsonLoads(AnswersExtractJson(oc.toks), oc.doc)
         IN  IF ~parsed.ok THEN XReturned(AllNo)
             ELSE IF parsed.val.kind # "obj" THEN XReturned(AllNo)
             ELSE XReturned(Validate(parsed.val.ans))

(***************************************************************************)
(* Inputs of the extractor: answer dictionaries that differ from a base    *)
(* dictionary in at most MaxEdits keys (changed, removed or added).        *)
(***************************************************************************)
QValues == valid_q1 \cup valid_yes_no \cup {"Maybe"}

BaseAnswers ==
    { AllNo,
      [q \in QKeys |-> IF q = "Q1" THEN "Yes, quantitatively shown" ELSE "Yes"] }

\* the dictionaries obtained from `a` by one edit
OneEdit(a) ==
    {[q \in DOMAIN a |-> IF q = k THEN v ELSE a[q]] : k \in DOMAIN a, v \in QValues}
    \cup {[q \in (DOMAIN a) \ {k} |-> a[q]] : k \in DOMAIN a}
    \cup {[q \in (DOMAIN a) \cup {"notes"} |-> IF q = "notes" THEN "Maybe" ELSE a[q]]}

RECURSIVE Edited(_, _)
Edited(S, n) ==
    IF n = 0 THEN S
    ELSE LET prev == Edited(S, n - 1)
         IN  prev \cup UNION {OneEdit(a) : a \in prev}

AnswerDicts(n) == Edited(BaseAnswers, n)

XDocs(n) == {AnswersDoc(a) : a \in AnswerDicts(n)} \cup {ArrDoc(<<>>), ScalarDoc}

XShapes(c) ==
    { c,
      <<"fence", "json", "w">> \o c \o <<"w", "fence">>,
      <<"p", "w", "fence", "w">> \o c \o <<"w", "fence">>,
      <<"p", "w">> \o c,
      <<"{", "B">> }

XOutcomes(n) ==
    {FailedCall}
    \cup {Response(sh, d) : <<sh, d>> \in UNION {XShapes(Core(dd)) \X {dd} : dd \in XDocs(n)}}

(***************************************************************************)
(* aggregate_results.py.  A CSV file is [exists, readable, rows], where    *)
(* readable tells whether pd.read_csv returns for it; a row of the papers  *)
(* table is [theory_id, paper_url, paper_name, paper_year] and a row of    *)
(* the annotations table has the answers besides.  On disk the             *)
(* theory_id is a cell text; pandas turns it into a number or a string.    *)
(* The other cells parse alike in every file and are kept as texts.        *)
(***************************************************************************)
NoFile == [exists |-> FALSE, readable |-> FALSE, rows |-> <<>>]
File(rs) == [exists |-> TRUE, readable |-> TRUE, rows |-> rs]

\* a file on which pd.read_csv raises (no bytes, bytes that do not decode,
\* a line with too many fields)
Unreadable == [exists |-> TRUE, readable |-> FALSE, rows |-> <<>>]

\* cell texts of the theory_id column and the integers they parse to;
\* "novel" stands for any text that is not a number
CellTexts == {"0", "1", "2", "novel"}
IsIntText(c) == c \in {"0", "1", "2"}
CellCode(c) ==
    CASE c = "0" -> 0
      [] c = "1" -> 1
      [] c = "2" -> 2
      [] OTHER -> -1
TextOf(n) ==
    CASE n = 0 -> "0"
      [] n = 1 -> "1"
      [] n = 2 -> "2"
      [] OTHER -> "novel"

\* pd.read_csv: a column in which every cell is an integer text becomes
\* int64, any other column stays a column of strings
ReadCell(c, allInt) == IF allInt THEN Num(CellCode(c)) ELSE StrV(CellCode(c))

read_csv(f) ==
    LET allInt == \A i \in 1..Len(f.rows) : IsIntText(f.rows[i].theory_id)
    IN  [i \in 1..Len(f.rows) |->
            [f.rows[i] EXCEPT !.theory_id = ReadCell(f.rows[i].theory_id, allInt)]]

\* DataFrame.to_csv: a number and a string are written as their text
to_csv(df) ==
    File([i \in 1..Len(df) |-> [df[i] EXCEPT !.theory_id = TextOf(df[i].theory_id.v)]])

\* repo_root.rglob(filename): the root-level file first when it exists,
\* then the files of the sub-directories in directory-scan order
csv_files(fs) ==
    (IF fs.root.exists THEN <<fs.root>> ELSE <<>>)
    \o SelectSeq(fs.exports, LAMBDA f : f.exists)

\* a read loop that ends at the first file pd.read_csv raises on
LoadedBeforeFailure(fs) ==
    LET bad == {i \in 1..Len(csv_files(fs)) : ~csv_files(fs)[i].readable}
    IN  IF bad = {} THEN csv_files(fs)
        ELSE SubSeq(csv_files(fs), 1, (CHOOSE i \in bad : \A j \in bad : i <= j) - 1)

\* lines 28-35: the files whose DataFrame is appended to dfs; a file on
\* which pd.read_csv raises is reported and left out
Loaded(fs) == SelectSeq(csv_files(fs), LAMBDA f : f.readable)

dedup_cols(r) == <<r.theory_id, r.paper_name, r.paper_year>>

RECURSIVE KeepFirst(_, _)
KeepFirst(df, seen) ==
    IF df = <<>> THEN <<>>
    ELSE IF dedup_cols(Head(df)) \in seen
         THEN KeepFirst(Tail(df), seen)
         ELSE <<Head(df)>> \o KeepFirst(Tail(df), seen \cup {dedup_cols(Head(df))})

\* combined_df.drop_duplicates(subset=dedup_cols, keep="first")
drop_duplicates(df) == KeepFirst(df, {})

\* combined_df[combined_df["theory_id"] != 0]
DropUnknown(df) == SelectSeq(df, LAMBDA r : r.theory_id # Num(0))

\* aggregate_csv: the new root-level file and the returned DataFrame;
\* without any file that could be read nothing is written
aggregate_csv(fs) ==
    LET dfs == [i \in 1..Len(Loaded(fs)) |-> read_csv(Loaded(fs)[i])]
        combined_df == DropUnknown(drop_duplicates(Concat(dfs)))
    IN  IF dfs = <<>>
        THEN [root |-> fs.root, df |-> <<>>]
        ELSE [root |-> to_csv(combined_df), df |-> combined_df]

\* theory_mapping: the name of a taxonomy id, 0 for the missing name (NaN)
theory_mapping(id) == IF id.k = "num" /\ id.v \in TheoryIds THEN id.v ELSE 0

\* groupby("theory_id").size(): the group keys in sorted order (numbers
\* before strings) with their row counts
GroupKeys(df) == {df[i].theory_id : i \in 1..Len(df)}
KeyBefore(a, b) ==
    \/ a.k = "num" /\ b.k = "str"
    \/ a.k = b.k /\ a.v < b.v
RECURSIVE SortedKeys(_)
SortedKeys(K) ==
    IF K = {} THEN <<>>
    ELSE LET m == CHOOSE x \in K : \A y \in K \ {x} : KeyBefore(x, y)
         IN  <<m>> \o SortedKeys(K \ {m})
GroupSize(df, id) == Cardinality({i \in 1..Len(df) : df[i].theory_id = id})

\* lines 72-81: table1 is rewritten only when table2 is not empty
GenerateTable1File(table2df, old1) ==
    IF table2df # <<>>
    THEN LET ks == SortedKeys(GroupKeys(table2df))
         IN  File([i \in 1..Len(ks) |->
                     [theory_id |-> TextOf(ks[i].v),
                      theory_name |-> theory_mapping(ks[i]),
                      number_of_collected_papers |-> GroupSize(table2df, ks[i])]])
    ELSE old1

(***************************************************************************)
(* The agent: output files, process_paper, _save_paper_to_csvs,            *)
(* finalize_table1.  An output file is [exists, header, rows]: `header`    *)
(* counts the header rows at its top, `rows` are its data rows in order.   *)
(* The in-memory state of an agent is [theory_papers, papers_processed,    *)
(* total_cost]; theory_papers is the dictionary in insertion order, a      *)
(* sequence of [id, papers].  total_cost is counted in cents.              *)
(***************************************************************************)
CostPerPaper == 4

Absent == [exists |-> FALSE, header |-> 0, rows |-> <<>>]
Created == [exists |-> TRUE, header |-> 1, rows |-> <<>>]

OutputFiles == {"t1", "t2", "t3", "quality", "tags", "meta"}

\* an initialisation that opens every file for writing, existing or not
_initialize_csv_files_overwrite(out) == [f \in OutputFiles |-> Created]

\* _initialize_csv_files: a file that does not exist is created with its
\* header row, an existing file is left alone
_initialize_csv_files(out) ==
    [f \in OutputFiles |-> IF out[f].exists THEN out[f] ELSE Created]

\* __init__: empty index, zeroed statistics
NewAgent == [theory_papers |-> <<>>, papers_processed |-> 0, total_cost |-> 0]

AppendRow(out, f, r) == [out EXCEPT ![f].rows = Append(@, r)]
AppendRows(out, f, rs) == [out EXCEPT ![f].rows = @ \o rs]

\* the record fetch_metadata returns for candidate pid
Metadata(pid) == [pmid |-> pid, url |-> pid, title |-> pid, year |-> 2000 + pid]

\* a maximum that keeps the last tag among those of the greatest confidence
PrimaryIndexLast(tags) ==
    CHOOSE i \in 1..Len(tags) :
        /\ \A j \in 1..Len(tags) : tags[j].confidence.v <= tags[i].confidence.v
        /\ \A j \in (i + 1)..Len(tags) : tags[j].confidence.v < tags[i].confidence.v

\* max(theory_tags, key=lambda t: t.confidence): the first tag among those
\* of the greatest confidence
PrimaryIndex(tags) ==
    CHOOSE i \in 1..Len(tags) :
        /\ \A j \in 1..Len(tags) : tags[j].confidence.v <= tags[i].confidence.v
        /\ \A j \in 1..(i - 1) : tags[j].confidence.v < tags[i].confidence.v

primary_theory(tags) == tags[PrimaryIndex(tags)]

\* an index that keeps only the latest paper of a theory
TrackPaperLatest(tp, id, url) ==
    IF \E i \in 1..Len(tp) : tp[i].id = id
    THEN [i \in 1..Len(tp) |-> IF tp[i].id = id THEN [tp[i] EXCEPT !.papers = <<url>>] ELSE tp[i]]
    ELSE Append(tp, [id |-> id, papers |-> <<url>>])

\* self.theory_papers[theory_id].append(paper_url), the key being created
\* on its first use
TrackPaper(tp, id, url) ==
    IF \E i \in 1..Len(tp) : tp[i].id = id
    THEN [i \in 1..Len(tp) |->
            IF tp[i].id = id THEN [tp[i] EXCEPT !.papers = Append(@, url)] ELSE tp[i]]
    ELSE Append(tp, [id |-> id, papers |-> <<url>>])

\* a dictionary key must be hashable
Hashable(v) == v.k # "list"

\* " | ".join(tag.evidence_snippets[:2]) works on a list of strings and on
\* a string
JoinableEvidence(ev) == ev.k \in {"list", "str"}

Table2Row(id, md) ==
    [theory_id |-> id, paper_url |-> md.url, paper_name |-> md.title, paper_year |-> md.year]

Table3Row(id, md, ans) ==
    [theory_id |-> id, paper_url |-> md.url, paper_name |-> md.title, paper_year |-> md.year,
     Q |-> [q \in QKeys |-> ans[q]]]

TagRow(md, tag) ==
    [paper_url |-> md.url, theory_id |-> tag.theory_id, theory_name |-> tag.theory_name,
     confidence |-> tag.confidence, source |-> tag.source]

MetaRow(md, has_full_text, confidence) ==
    [paper_url |-> md.url, pmid |-> md.pmid, has_full_text |-> has_full_text,
     overall_confidence |-> confidence]

\* the tag rows written before the loop over theory_tags raises (all of
\* them when it does not)
RECURSIVE WritableTags(_)
WritableTags(tags) ==
    IF tags = <<>> THEN <<>>
    ELSE IF ~JoinableEvidence(Head(tags).evidence_snippets) THEN <<>>
    ELSE <<Head(tags)>> \o WritableTags(Tail(tags))

\* a writer that records the primary theory only
TagRowsPrimaryOnly(md, tags) ==
    IF WritableTags(tags) = <<>> THEN <<>> ELSE <<TagRow(md, primary_theory(tags))>>

TagRows(md, tags) == [i \in 1..Len(WritableTags(tags)) |-> TagRow(md, WritableTags(tags)[i])]

\* _save_paper_to_csvs: the agent and the files afterwards, and whether it
\* raised on the way (what was written before stays written)
_save_paper_to_csvs(ag, out, md, tags, ans, has_full_text, confidence, authorsOk) ==
    LET theory_id == primary_theory(tags).theory_id
        ag1 == [ag EXCEPT !.theory_papers = TrackPaper(@, theory_id, md.url)]
        out2 == AppendRow(out, "t2", Table2Row(theory_id, md))
        out3 == AppendRow(out2, "t3", Table3Row(theory_id, md, ans))
        out4 == AppendRows(out3, "tags", TagRows(md, tags))
        out5 == AppendRow(out4, "meta", MetaRow(md, has_full_text, confidence))
    IN  IF ~Hashable(theory_id) THEN [raised |-> TRUE, ag |-> ag, out |-> out]
        ELSE IF Len(WritableTags(tags)) < Len(tags) THEN [raised |-> TRUE, ag |-> ag1, out |-> out4]
        ELSE IF ~authorsOk THEN [raised |-> TRUE, ag |-> ag1, out |-> out4]
        ELSE [raised |-> FALSE, ag |-> ag1, out |-> out5]

\* What the collaborators give for one candidate: fetch_metadata ("none"
\* when it returns None), whether the title is None, the abstract, the
\* full text (isNone when there is none), the two model calls, and whether
\* every author name is a string
PaperInput(fe, tn, ab, fu, toc, xoc, au) ==
    [fetch |-> fe, titleNone |-> tn, abstract |-> ab, full |-> fu,
     tagOc |-> toc, xOc |-> xoc, authorsOk |-> au]

TagsFor(pl, txt, oc) ==
    IF pl = "europepmc" THEN epmc_tag_theories(txt, oc) ELSE tag_theories(txt, oc)

\* the loop printing f"{tag.confidence:.2f}" raises on a confidence that
\* is not a number
Printable(tags) == \A i \in 1..Len(tags) : tags[i].confidence.k = "num"

\* what process_paper gives: ret is "True", "False", "raised" (an
\* Exception left it) or "interrupted" (a KeyboardInterrupt left it); tags
\* is the list tag_theories returned when the call returned True
Outcome(ret, ag, out, tags) == [ret |-> ret, ag |-> ag, out |-> out, tags |-> tags]

\* text = full_text if has_full_text else metadata['abstract']
PaperText(inp) == IF inp.full.isNone THEN inp.abstract ELSE inp.full

\* lines 512-519: after _save_paper_to_csvs the statistics are updated and
\* True is returned; an exception of the save leaves what it wrote
AfterSave(tags, saved) ==
    IF saved.raised THEN Outcome("raised", saved.ag, saved.out, <<>>)
    ELSE Outcome("True",
                 [saved.ag EXCEPT !.papers_processed = @ + 1,
                                  !.total_cost = @ + CostPerPaper],
                 saved.out, tags)

\* lines 492-512: the two model calls, the printing of the tags, the save
AfterFetch(ag, out, md, has_full_text, theory_tags, ans, authorsOk) ==
    IF theory_tags.raised THEN Outcome("raised", ag, out, <<>>)
    ELSE IF ~Printable(theory_tags.tags) THEN Outcome("raised", ag, out, <<>>)
    ELSE IF ans.raised THEN Outcome("raised", ag, out, <<>>)
    ELSE AfterSave(theory_tags.tags,
                   _save_paper_to_csvs(ag, out, md, theory_tags.tags, ans.ans, has_full_text,
                                       IF has_full_text THEN "high" ELSE "medium", authorsOk))

\* a KeyboardInterrupt is no Exception: none of the except clauses of
\* fetch_metadata, tag_theories and extract_answers holds it back.  The
\* interrupt of the model is the one that arrives while process_paper
\* waits for a reply, before anything is written
process_paper(pl, ag, out, pid, inp) ==
    IF inp.fetch = "none" THEN Outcome("False", ag, out, <<>>)
    ELSE IF inp.fetch = "interrupt" THEN Outcome("interrupted", ag, out, <<>>)
    ELSE IF inp.titleNone THEN Outcome("raised", ag, out, <<>>)
    ELSE AfterFetch(ag, out, Metadata(pid), ~inp.full.isNone,
                    TagsFor(pl, PaperText(inp), inp.tagOc),
                    extract_answers(PaperText(inp), inp.xOc),
                    inp.authorsOk)

\* finalize_table1: one row per key of theory_papers, appended to table1
Table1Row(entry) ==
    [theory_id |-> entry.id,
     theory_name |-> IF entry.id.k = "num" /\ entry.id.v \in TheoryIds THEN entry.id.v ELSE 0,
     number_of_collected_papers |-> Len(entry.papers)]

finalize_table1(ag, out) ==
    AppendRows(out, "t1", [i \in 1..Len(ag.theory_papers) |-> Table1Row(ag.theory_papers[i])])

(***************************************************************************)
(* State.                                                                  *)
(***************************************************************************)
VARIABLES
    \* one call of tag_theories
    pipeline,       \* the agent whose tag_theories is called
    text,           \* the text argument
    outcome,        \* what the model call does
    result,         \* what tag_theories returned, or that it raised
    tpc,            \* "call" before the call, "done" after it
    \* one call of extract_answers
    xtext,          \* the text argument
    xoutcome,       \* what the model call does
    answers,        \* what extract_answers returned, or that it raised
    xpc,            \* "call" before the call, "done" after it
    \* the aggregation script
    fs2,            \* the table2_papers.csv files: [root, exports]
    fs3,            \* the table3_annotations.csv files: [root, exports]
    t1file,         \* the root-level table1_theories.csv
    table2,         \* the DataFrame aggregate_csv returned for table 2
    spc,            \* position in the script
    sruns,          \* completed runs of the script
    old,            \* the root-level files when the current run started
    \* one agent working in one output directory
    apipe,          \* which agent it is
    agent,          \* theory_papers and the stats of the live object
    out,            \* the files of the output directory
    rpc,            \* position: "new", "idle", "attempt", "sleep", "finalize",
                    \* "aborted" (a KeyboardInterrupt left run())
    pmids,          \* what the search of the current run returned
    target,         \* target_papers of the current run
    cands,          \* pmids[:target_papers] of the current run
    idx,            \* candidates of the current run attempted so far
    max_cost,       \* max_cost_usd of the current run, in cents
    runs,           \* calls of run() that have returned
    attempts,       \* calls of process_paper so far
    agents,         \* objects constructed so far
    last,           \* the last call of process_paper in the run in progress
    \* two agents working in the same output directory at the same time
    procs           \* each agent's position and the rows it has appended

tagVars == <<pipeline, text, outcome, result, tpc>>
extVars == <<xtext, xoutcome, answers, xpc>>
aggVars == <<fs2, fs3, t1file, table2, spc, sruns, old>>
agentVars == <<apipe, agent, out, rpc, pmids, target, cands, idx, max_cost, runs, attempts,
               agents, last>>

vars == <<tagVars, extVars, aggVars, agentVars, procs>>

\* the parts of the state a specification does not use stay as they are
TagIdle ==
    /\ pipeline = "pubmed"
    /\ text = Str(<<>>, 0)
    /\ outcome = FailedCall
    /\ result = Returned(<<>>)
    /\ tpc = "idle"

ExtIdle ==
    /\ xtext = Str(<<>>, 0)
    /\ xoutcome = FailedCall
    /\ answers = XReturned(AllNo)
    /\ xpc = "idle"

AggIdle ==
    /\ fs2 = [root |-> NoFile, exports |-> <<>>]
    /\ fs3 = [root |-> NoFile, exports |-> <<>>]
    /\ t1file = NoFile
    /\ table2 = <<>>
    /\ spc = "off"
    /\ sruns = 0
    /\ old = [t2 |-> NoFile, t3 |-> NoFile, t1 |-> NoFile]

NoAttempt == [fetched |-> FALSE, wellFormed |-> FALSE, pid |-> 0, ret |-> "none", tags |-> <<>>]

AgentIdle ==
    /\ apipe = "pubmed"
    /\ agent = NewAgent
    /\ out = [f \in OutputFiles |-> Absent]
    /\ rpc = "off"
    /\ pmids = <<>>
    /\ target = 0
    /\ cands = <<>>
    /\ idx = 0
    /\ max_cost = 0
    /\ runs = 0
    /\ attempts = 0
    /\ agents = 0
    /\ last = NoAttempt

TwoIdle == procs = <<>>

(***************************************************************************)
(* SpecTag: tag_theories applied to every input.                           *)
(***************************************************************************)
TagInit ==
    /\ pipeline \in Pipelines
    /\ text \in TextsOf(pipeline)
    /\ outcome \in Outcomes(MaxTags)
    /\ result = Returned(<<>>)
    /\ tpc = "call"
    /\ ExtIdle
    /\ AggIdle
    /\ AgentIdle
    /\ TwoIdle

TagTheories ==
    /\ tpc = "call"
    /\ result' = IF pipeline = "europepmc"
                 THEN epmc_tag_theories(text, outcome)
                 ELSE tag_theories(text, outcome)
    /\ tpc' = "done"
    /\ UNCHANGED <<procs, pipeline, text, outcome, extVars, aggVars, agentVars>>

TagNext == TagTheories

SpecTag == TagInit /\ [][TagNext]_vars

(***************************************************************************)
(* SpecInfer: _infer_theories applied to texts of up to MaxWords words,    *)
(* among them words in capitals, words that hold a keyword inside          *)
(* ("across" holds "ros"), words that hold two keywords of one theory      *)
(* ("mitochondrial") and words without any keyword.                        *)
(***************************************************************************)
Words ==
    { <<"R","O","S">>,
      <<"a","c","r","o","s","s">>,
      <<"T","e","l","o","m","e","r","a","s","e">>,
      <<"t","e","l","o","m","e","r","e">>,
      <<"m","T","O","R">>,
      <<"S","e","n","e","s","c","e","n","t">>,
      <<"D","N","A"," ","d","a","m","a","g","e">>,
      <<"m","i","t","o","c","h","o","n","d","r","i","a","l">>,
      <<"a","g","i","n","g">> }

\* " ".join(ws)
RECURSIVE JoinWords(_)
JoinWords(ws) ==
    IF ws = <<>> THEN <<>>
    ELSE IF Len(ws) = 1 THEN ws[1]
    ELSE ws[1] \o <<" ">> \o JoinWords(Tail(ws))

InferTexts(n) == {Str(JoinWords(ws), 0) : ws \in SeqsUpTo(Words, n)}

InferInit ==
    /\ pipeline = "pubmed"
    /\ text \in InferTexts(MaxWords)
    /\ outcome = FailedCall
    /\ result = Returned(<<>>)
    /\ tpc = "call"
    /\ ExtIdle
    /\ AggIdle
    /\ AgentIdle
    /\ TwoIdle

InferTheories ==
    /\ tpc = "call"
    /\ result' = _infer_theories(text)
    /\ tpc' = "done"
    /\ UNCHANGED <<procs, pipeline, text, outcome, extVars, aggVars, agentVars>>

InferNext == InferTheories

SpecInfer == InferInit /\ [][InferNext]_vars

(***************************************************************************)
(* SpecExtract: extract_answers applied to every input.                    *)
(***************************************************************************)
XTexts == {Str(<<>>, 0), Str(<<"a","g","i","n","g">>, 5000)}

ExtractInit ==
    /\ xtext \in XTexts
    /\ xoutcome \in XOutcomes(MaxEdits)
    /\ answers = XReturned(AllNo)
    /\ xpc = "call"
    /\ TagIdle
    /\ AggIdle
    /\ AgentIdle
    /\ TwoIdle

ExtractAnswers ==
    /\ xpc = "call"
    /\ answers' = extract_answers(xtext, xoutcome)
    /\ xpc' = "done"
    /\ UNCHANGED <<procs, xtext, xoutcome, tagVars, aggVars, agentVars>>

ExtractNext == ExtractAnswers

SpecExtract == ExtractInit /\ [][ExtractNext]_vars

(***************************************************************************)
(* SpecAgg: the aggregation script run over every small file tree, and     *)
(* run again over its own output.                                          *)
(***************************************************************************)
PaperRows ==
    [theory_id : {"0", "1", "novel"}, paper_url : {"A", "B"},
     paper_name : {"P1", "P2"}, paper_year : {"2020"}]

\* rows of an earlier root-level aggregate
PriorRows ==
    [theory_id : {"1"}, paper_url : {"C"}, paper_name : {"P1", "P3"}, paper_year : {"2020"}]

PriorRoots == {NoFile, File(<<>>)} \cup {File(<<r>>) : r \in PriorRows}

PriorTable1 ==
    { NoFile,
      File(<<[theory_id |-> "2", theory_name |-> 2, number_of_collected_papers |-> 7]>>) }

\* the export files of MaxFiles run directories, MaxRows data rows in all
RECURSIVE ExportSets(_, _)
ExportSets(nfiles, nrows) ==
    IF nfiles = 0 THEN {<<>>}
    ELSE UNION { {<<f>> \o rest : rest \in ExportSets(nfiles - 1, nrows - Len(f.rows))} :
                 f \in {NoFile} \cup {File(rs) : rs \in SeqsUpTo(PaperRows, nrows)} }

\* an annotations file holds the rows of the papers file with the answers
WithAnswers(f) ==
    [f EXCEPT !.rows = [i \in 1..Len(f.rows) |->
        [theory_id |-> f.rows[i].theory_id, paper_url |-> f.rows[i].paper_url,
         paper_name |-> f.rows[i].paper_name, paper_year |-> f.rows[i].paper_year,
         Q |-> AllNo]]]

AggInit ==
    /\ \E ex \in ExportSets(MaxFiles, MaxRows), r \in PriorRoots :
          /\ fs2 = [root |-> r, exports |-> ex]
          /\ fs3 = [root |-> WithAnswers(r),
                    exports |-> [i \in 1..Len(ex) |-> WithAnswers(ex[i])]]
    /\ t1file \in PriorTable1
    /\ table2 = <<>>
    /\ spc = "off"
    /\ sruns = 0
    /\ old = [t2 |-> NoFile, t3 |-> NoFile, t1 |-> NoFile]
    /\ TagIdle
    /\ ExtIdle
    /\ AgentIdle
    /\ TwoIdle

\* python aggregate_results.py is started
StartScript ==
    /\ spc \in {"off", "done"}
    /\ sruns < MaxRuns
    /\ old' = [t2 |-> fs2.root, t3 |-> fs3.root, t1 |-> t1file]
    /\ table2' = <<>>
    /\ spc' = "table2"
    /\ UNCHANGED <<procs, fs2, fs3, t1file, sruns, tagVars, extVars, agentVars>>

\* line 62
AggregateTable2 ==
    /\ spc = "table2"
    /\ fs2' = [fs2 EXCEPT !.root = aggregate_csv(fs2).root]
    /\ table2' = aggregate_csv(fs2).df
    /\ spc' = "table3"
    /\ UNCHANGED <<procs, fs3, t1file, sruns, old, tagVars, extVars, agentVars>>

\* line 67
AggregateTable3 ==
    /\ spc = "table3"
    /\ fs3' = [fs3 EXCEPT !.root = aggregate_csv(fs3).root]
    /\ spc' = "table1"
    /\ UNCHANGED <<procs, fs2, t1file, table2, sruns, old, tagVars, extVars, agentVars>>

\* lines 72-81
GenerateTable1 ==
    /\ spc = "table1"
    /\ t1file' = GenerateTable1File(table2, t1file)
    /\ spc' = "done"
    /\ sruns' = sruns + 1
    /\ UNCHANGED <<procs, fs2, fs3, table2, old, tagVars, extVars, agentVars>>

AggNext == StartScript \/ AggregateTable2 \/ AggregateTable3 \/ GenerateTable1

SpecAgg == AggInit /\ [][AggNext]_vars

(***************************************************************************)
(* SpecAggRead: the aggregation script run over file trees in which some   *)
(* of the discovered files cannot be read.                                 *)
(***************************************************************************)
ReadRows ==
    [theory_id : {"0", "1"}, paper_url : {"A", "B"},
     paper_name : {"P1"}, paper_year : {"2020"}]

ReadRoots ==
    {NoFile, Unreadable,
     File(<<[theory_id |-> "1", paper_url |-> "C", paper_name |-> "P1", paper_year |-> "2020"]>>)}

\* the export files of nfiles run directories, nrows data rows in all,
\* each file missing, unreadable or readable
RECURSIVE ReadTrees(_, _)
ReadTrees(nfiles, nrows) ==
    IF nfiles = 0 THEN {<<>>}
    ELSE UNION { {<<f>> \o rest : rest \in ReadTrees(nfiles - 1, nrows - Len(f.rows))} :
                 f \in {NoFile, Unreadable} \cup {File(rs) : rs \in SeqsUpTo(ReadRows, nrows)} }

\* the annotations files of the same directories; with `torn` the first
\* export that holds rows cannot be read although its papers file can
AnnotationFiles(ex, torn) ==
    LET full == {i \in 1..Len(ex) : ex[i].rows # <<>>}
    IN  [i \in 1..Len(ex) |->
            IF torn /\ i \in full /\ (\A j \in full : i <= j)
            THEN Unreadable
            ELSE WithAnswers(ex[i])]

ReadInit ==
    /\ \E ex \in ReadTrees(MaxFiles, MaxRows), r \in ReadRoots, torn \in BOOLEAN :
          /\ fs2 = [root |-> r, exports |-> ex]
          /\ fs3 = [root |-> WithAnswers(r), exports |-> AnnotationFiles(ex, torn)]
    /\ t1file = NoFile
    /\ table2 = <<>>
    /\ spc = "off"
    /\ sruns = 0
    /\ old = [t2 |-> NoFile, t3 |-> NoFile, t1 |-> NoFile]
    /\ TagIdle
    /\ ExtIdle
    /\ AgentIdle
    /\ TwoIdle

SpecAggRead == ReadInit /\ [][AggNext]_vars

(***************************************************************************)
(* Spec: an agent is constructed in an output directory and run() is       *)
(* called on it, several times over (as main does), the directory being    *)
(* kept when a new object is constructed in it.                            *)
(***************************************************************************)
LongText(cs) == Str(cs, PubmedFullTextLen + 1)

Telomerase == Str(<<"t","e","l","o","m","e","r","a","s","e">>, 0)

\* the PubMed agent stands for the arXiv and bioRxiv agents too, whose
\* process_paper, _save_paper_to_csvs, finalize_table1 and run have the
\* same body and whose fetch_metadata gives a part of what PubMed's gives
AgentPipelines == {"pubmed", "europepmc"}

Abstracts(pl) == {Telomerase} \cup (IF pl = "pubmed" THEN {NoneText} ELSE {})

FullTexts == {NoneText, LongText(<<"t","e","l","o","m","e","r","a","s","e">>)}

Ev == ListV(1)

\* what the classifier's model call can do for one paper
AgentTagOutcomes ==
    { FailedCall,
      Response(ObjText, TagsDoc("list",
          <<Item(Num(4), StrV(4), Num(60), Ev), Item(Num(2), StrV(2), Num(90), Ev)>>, FALSE)),
      Response(ObjText, TagsDoc("list",
          <<Item(Num(2), StrV(2), StrV(9), Ev)>>, FALSE)),
      Response(ObjText, TagsDoc("list",
          <<Item(Num(2), StrV(2), Num(90), Ev), Item(Num(4), StrV(4), Num(60), NullV)>>, FALSE)),
      Response(ObjText, TagsDoc("list",
          <<Item(ListV(1), StrV(2), Num(90), Ev)>>, FALSE)) }

\* what the extractor's model call can do for one paper
AgentXOutcomes ==
    { Response(ObjText, AnswersDoc(
          [q \in QKeys |-> IF q = "Q1" THEN "Yes, quantitatively shown" ELSE "Yes"])) }

InputsOf(pl) ==
    { PaperInput("none", FALSE, Telomerase, NoneText, FailedCall, xoc, TRUE) :
        xoc \in AgentXOutcomes }
    \cup
    { PaperInput("interrupt", FALSE, Telomerase, NoneText, FailedCall, xoc, TRUE) :
        xoc \in AgentXOutcomes }
    \cup
    { PaperInput("ok", TRUE, Telomerase, NoneText, FailedCall, xoc, TRUE) :
        xoc \in (IF pl = "pubmed" THEN AgentXOutcomes ELSE {}) }
    \cup
    { PaperInput("ok", FALSE, ab, fu, toc, xoc, au) :
        ab \in Abstracts(pl), fu \in FullTexts,
        toc \in AgentTagOutcomes, xoc \in AgentXOutcomes, au \in {TRUE} }
    \cup
    { PaperInput("ok", FALSE, Telomerase, NoneText, FailedCall, xoc, FALSE) :
        xoc \in (IF pl = "pubmed" THEN AgentXOutcomes ELSE {}) }

\* the record fetch_metadata gave holds what process_paper and
\* _save_paper_to_csvs take for granted: a title, a text and author names
\* that are strings
WellFormed(inp) == ~inp.titleNone /\ ~PaperText(inp).isNone /\ inp.authorsOk

\* max_cost_usd of a run, in cents
Budgets == {0, CostPerPaper, 25 * CostPerPaper}

Min(a, b) == IF a < b THEN a ELSE b

\* the search of a run: n ids, in the order of their rank
SearchResult(n) == [i \in 1..n |-> i]

\* a loop over pmids instead of pmids[:target_papers]
CandidatesAll(ids, tp) == ids

\* pmids[:target_papers]
Candidates(ids, tp) == SubSeq(ids, 1, Min(tp, Len(ids)))

Init ==
    /\ apipe \in AgentPipelines
    /\ agent = NewAgent
    /\ out = [f \in OutputFiles |-> Absent]
    /\ rpc = "new"
    /\ pmids = <<>>
    /\ target = 0
    /\ cands = <<>>
    /\ idx = 0
    /\ max_cost = 0
    /\ runs = 0
    /\ attempts = 0
    /\ agents = 0
    /\ last = NoAttempt
    /\ TagIdle
    /\ ExtIdle
    /\ AggIdle
    /\ TwoIdle

\* SubmissionAgent(output_dir): __init__ and _initialize_csv_files, by the
\* process that made the earlier objects or, after a run that a
\* KeyboardInterrupt ended, by a new process
Construct ==
    /\ rpc \in {"new", "idle", "aborted"}
    /\ agents < MaxAgents
    /\ agent' = NewAgent
    /\ out' = _initialize_csv_files(out)
    /\ rpc' = "idle"
    /\ agents' = agents + 1
    /\ UNCHANGED <<procs, apipe, pmids, target, cands, idx, max_cost, runs, attempts, last,
                   tagVars, extVars, aggVars>>

\* the locals of run() once the search has returned ids
RunBegins(ids, tp, mc) ==
    /\ rpc' = IF Len(Candidates(ids, tp)) = 0 THEN "finalize" ELSE "attempt"
    /\ runs' = runs
    /\ pmids' = ids
    /\ target' = tp
    /\ cands' = Candidates(ids, tp)
    /\ max_cost' = mc

\* the Europe PMC run() returns at once when the search gave nothing
RunReturnsEmpty ==
    /\ rpc' = "idle"
    /\ runs' = runs + 1
    /\ pmids' = <<>>
    /\ target' = 0
    /\ cands' = <<>>
    /\ max_cost' = 0

\* run(query, target_papers, max_cost_usd) up to the loop: the search gives
\* n ids, of which the first target_papers are the candidates
StartRun ==
    /\ rpc = "idle"
    /\ runs < MaxRuns
    /\ \E tp \in 1..MaxPapers, n \in 0..MaxPapers, mc \in Budgets :
          /\ n <= 2 * tp
          /\ attempts + Len(Candidates(SearchResult(n), tp)) <= MaxAttempts
          /\ idx' = 0
          /\ IF apipe = "europepmc" /\ n = 0
             THEN RunReturnsEmpty
             ELSE RunBegins(SearchResult(n), tp, mc)
    /\ UNCHANGED <<procs, apipe, agent, out, attempts, agents, last, tagVars, extVars, aggVars>>

\* a loop without the clause "except Exception: continue"
AfterAttemptRaiseLeaves(r) ==
    IF r.ret = "interrupted" THEN "finalize"
    ELSE IF r.ret = "raised" THEN "aborted"
    ELSE IF r.ag.total_cost >= max_cost THEN "finalize"
    ELSE "sleep"

\* where the loop goes after process_paper: the budget check after a call
\* that returned, the two except clauses after one that did not
AfterAttempt(r) ==
    IF r.ret = "interrupted" THEN "finalize"
    ELSE IF r.ret = "raised"
    THEN (IF idx + 1 < Len(cands) THEN "attempt" ELSE "finalize")
    ELSE IF r.ag.total_cost >= max_cost THEN "finalize"
    ELSE "sleep"

\* lines 605-617 with the outcome r of process_paper
AttemptDoes(inp, r) ==
    /\ agent' = r.ag
    /\ out' = r.out
    /\ last' = [fetched |-> inp.fetch # "none", wellFormed |-> WellFormed(inp),
                pid |-> cands[idx + 1], ret |-> r.ret, tags |-> r.tags]
    /\ rpc' = AfterAttempt(r)

\* one iteration of the loop up to time.sleep: process_paper, the budget
\* check after it, and the except clauses; the collaborators give one of
\* `inputs`
AttemptWith(inputs) ==
    /\ rpc = "attempt"
    /\ \E inp \in inputs :
          AttemptDoes(inp, process_paper(apipe, agent, out, cands[idx + 1], inp))
    /\ idx' = idx + 1
    /\ attempts' = attempts + 1
    /\ UNCHANGED <<procs, apipe, pmids, target, cands, max_cost, runs, agents,
                   tagVars, extVars, aggVars>>

Attempt == AttemptWith(InputsOf(apipe))

\* time.sleep(0.5) at the end of an iteration
Sleep ==
    /\ rpc = "sleep"
    /\ rpc' = IF idx < Len(cands) THEN "attempt" ELSE "finalize"
    /\ UNCHANGED <<procs, apipe, agent, out, pmids, target, cands, idx, max_cost, runs, attempts,
                   agents, last, tagVars, extVars, aggVars>>

\* a KeyboardInterrupt during time.sleep(0.5): line 619 stands after the
\* try statement, so no except clause of run() holds the interrupt; it
\* leaves run() and main(), and the process ends
InterruptedSleep ==
    /\ rpc = "sleep"
    /\ rpc' = "aborted"
    /\ pmids' = <<>>
    /\ target' = 0
    /\ cands' = <<>>
    /\ idx' = 0
    /\ max_cost' = 0
    /\ last' = NoAttempt
    /\ UNCHANGED <<procs, apipe, agent, out, runs, attempts, agents, tagVars, extVars, aggVars>>

\* the end of run(): finalize_table1
Finalize ==
    /\ rpc = "finalize"
    /\ out' = finalize_table1(agent, out)
    /\ runs' = runs + 1
    /\ rpc' = "idle"
    /\ pmids' = <<>>
    /\ target' = 0
    /\ cands' = <<>>
    /\ idx' = 0
    /\ max_cost' = 0
    /\ last' = NoAttempt
    /\ UNCHANGED <<procs, apipe, agent, attempts, agents, tagVars, extVars, aggVars>>

Next == Construct \/ StartRun \/ Attempt \/ Sleep \/ InterruptedSleep \/ Finalize

Spec == Init /\ [][Next]_vars

(***************************************************************************)
(* SpecPaper: one run() of a new agent in a new output directory, over     *)
(* papers whose texts and model replies vary more widely than in Spec:     *)
(* tags of equal confidence, three tags, an abstract with keywords of two  *)
(* theories, an abstract longer than 1000 characters, a short full text.   *)
(***************************************************************************)
SenescentTelomerase ==
    <<"S","e","n","e","s","c","e","n","t"," ","t","e","l","o","m","e","r","a","s","e">>

PaperAbstracts(pl) ==
    {Telomerase, Str(SenescentTelomerase, 0), LongText(Telomerase.chars)}
    \cup (IF pl = "pubmed" THEN {NoneText} ELSE {})

PaperFullTexts == {NoneText, LongText(Telomerase.chars), Telomerase}

PaperTagOutcomes ==
    AgentTagOutcomes \cup
    { Response(ObjText, TagsDoc("list",
          <<Item(Num(4), StrV(4), Num(90), Ev), Item(Num(2), StrV(2), Num(90), Ev)>>, FALSE)),
      Response(ObjText, TagsDoc("list",
          <<Item(Num(4), StrV(4), Num(60), Ev), Item(Num(2), StrV(2), Num(90), Ev),
            Item(Num(8), StrV(8), Num(90), Ev)>>, FALSE)),
      Response(<<"A">>, ArrDoc(
          <<Item(Num(4), StrV(4), Num(60), Ev), Item(Num(2), StrV(2), Num(90), Ev)>>)) }

PaperInputsOf(pl) ==
    InputsOf(pl) \cup
    { PaperInput("ok", FALSE, ab, fu, toc, xoc, TRUE) :
        ab \in PaperAbstracts(pl), fu \in PaperFullTexts,
        toc \in PaperTagOutcomes, xoc \in AgentXOutcomes }

\* SubmissionAgent(output_dir) on a directory without files, then run() up
\* to its loop with n = target_papers candidates and a budget that n
\* papers do not reach
PaperInit ==
    /\ apipe \in AgentPipelines
    /\ agent = NewAgent
    /\ out = _initialize_csv_files([f \in OutputFiles |-> Absent])
    /\ rpc = "attempt"
    /\ \E n \in 1..MaxPapers :
          /\ pmids = SearchResult(n)
          /\ target = n
          /\ cands = Candidates(SearchResult(n), n)
    /\ idx = 0
    /\ max_cost = 25 * CostPerPaper
    /\ runs = 0
    /\ attempts = 0
    /\ agents = 1
    /\ last = NoAttempt
    /\ TagIdle
    /\ ExtIdle
    /\ AggIdle
    /\ TwoIdle

PaperAttempt == AttemptWith(PaperInputsOf(apipe))

PaperNext == PaperAttempt \/ Sleep \/ Finalize

SpecPaper == PaperInit /\ [][PaperNext]_vars

(***************************************************************************)
(* SpecTwo: two agents constructed and run at the same time on one output  *)
(* directory.  A construction tests each file for existence and then, if   *)
(* the test said absent, opens it with mode 'w' and writes the header; the *)
(* test and the open are two steps.  Every append is one step.             *)
(***************************************************************************)
\* the files in the order _initialize_csv_files visits them
InitOrder == <<"t1", "t2", "t3", "quality", "tags", "meta">>

\* the files in the order _save_paper_to_csvs appends to them
SaveOrder == <<"t2", "t3", "tags", "meta">>

NoRows == [f \in OutputFiles |-> {}]

\* the row agent p appends to a file for its k-th paper (k = 0: the summary
\* row of finalize_table1)
RowOf(p, k) == [by |-> p, paper |-> k]

TwoAgents == 1..2

At(p, pc, i, k) == [procs[p] EXCEPT !.pc = pc, !.i = i, !.k = k]

\* after the file at position i of _initialize_csv_files: the next file, or
\* the first paper of the run
AfterFile(p, i) ==
    IF i < Len(InitOrder) THEN At(p, "exists", i + 1, 0) ELSE At(p, "save", 1, 1)

\* both processes are about to construct their agent on an empty directory;
\* each then persists `target` papers and finalizes
TwoInit ==
    /\ TagIdle
    /\ ExtIdle
    /\ AggIdle
    /\ apipe = "pubmed"
    /\ agent = NewAgent
    /\ out = [f \in OutputFiles |-> Absent]
    /\ rpc = "off"
    /\ pmids = <<>>
    /\ cands = <<>>
    /\ idx = 0
    /\ max_cost = 0
    /\ runs = 0
    /\ attempts = 0
    /\ agents = 0
    /\ last = NoAttempt
    /\ \E n \in 1..MaxPapers :
        /\ target = n
        /\ procs = [p \in TwoAgents |-> [pc |-> "exists", i |-> 1, k |-> 0, wrote |-> NoRows]]

\* `if not file.exists():`
TestExists(p) ==
    /\ procs[p].pc = "exists"
    /\ procs' = [procs EXCEPT ![p] =
                    IF out[InitOrder[procs[p].i]].exists
                    THEN AfterFile(p, procs[p].i)
                    ELSE At(p, "open", procs[p].i, 0)]
    /\ UNCHANGED out
    /\ UNCHANGED <<apipe, agent, rpc, pmids, target, cands, idx, max_cost, runs, attempts,
                   agents, last, tagVars, extVars, aggVars>>

\* `with open(file, 'w') as f: writer.writerow(header)`
WriteHeader(p) ==
    /\ procs[p].pc = "open"
    /\ out' = [out EXCEPT ![InitOrder[procs[p].i]] = Created]
    /\ procs' = [procs EXCEPT ![p] = AfterFile(p, procs[p].i)]
    /\ UNCHANGED <<apipe, agent, rpc, pmids, target, cands, idx, max_cost, runs, attempts,
                   agents, last, tagVars, extVars, aggVars>>

\* one `with open(file, 'a')` of _save_paper_to_csvs
AppendOne(p) ==
    /\ procs[p].pc = "save"
    /\ LET f == SaveOrder[procs[p].i]
           k == procs[p].k
           q == [procs[p] EXCEPT !.wrote[f] = @ \cup {RowOf(p, k)}]
       IN  /\ out' = AppendRow(out, f, RowOf(p, k))
           /\ procs' = [procs EXCEPT ![p] =
                           IF procs[p].i < Len(SaveOrder)
                           THEN [q EXCEPT !.i = @ + 1]
                           ELSE IF k < target
                           THEN [q EXCEPT !.i = 1, !.k = k + 1]
                           ELSE [q EXCEPT !.pc = "finalize", !.i = 1]]
    /\ UNCHANGED <<apipe, agent, rpc, pmids, target, cands, idx, max_cost, runs, attempts,
                   agents, last, tagVars, extVars, aggVars>>

\* the `with open(table1_file, 'a')` of finalize_table1
AppendSummary(p) ==
    /\ procs[p].pc = "finalize"
    /\ out' = AppendRow(out, "t1", RowOf(p, 0))
    /\ procs' = [procs EXCEPT ![p] =
                    [@ EXCEPT !.pc = "done", !.wrote["t1"] = @ \cup {RowOf(p, 0)}]]
    /\ UNCHANGED <<apipe, agent, rpc, pmids, target, cands, idx, max_cost, runs, attempts,
                   agents, last, tagVars, extVars, aggVars>>

TwoNext ==
    \E p \in TwoAgents : TestExists(p) \/ WriteHeader(p) \/ AppendOne(p) \/ AppendSummary(p)

SpecTwo == TwoInit /\ [][TwoNext]_vars

(***************************************************************************)
(* SpecCost: the two counters of stats over the runs of one agent, with    *)
(* total_cost as the double it is.  A double below 8 is written in units   *)
(* of 2^-57 (the last place of 0.04) as four digits of base 2^15, least    *)
(* significant first; a sum of two such doubles is exact in these digits   *)
(* and is then rounded once to Mantissa significant bits, ties to even, as *)
(* the sum of two Python floats is.                                        *)
(***************************************************************************)
Limbs == 4

LimbBase == 32768

Mantissa == 53

MaxCharged == 6     \* calls of process_paper by one agent in SpecCost

FZero == <<0, 0, 0, 0>>

\* the double 0.04 of line 515, 0x147AE147AE147B * 2^-57
Increment == <<5243, 3932, 27525, 163>>

\* the doubles 0.12 and 0.4 as values of max_cost_usd
Ceilings == { <<15728, 11796, 17039, 491>>, <<19664, 6553, 13107, 1638>> }

\* the exact sum of two numbers
BitsAdd(a, b) ==
    LET carry[i \in 1..Limbs] ==
            IF i = 1 THEN 0 ELSE (a[i - 1] + b[i - 1] + carry[i - 1]) \div LimbBase
    IN  [i \in 1..Limbs |-> (a[i] + b[i] + carry[i]) % LimbBase]

\* the number of bits of a digit
BitLen(n) == IF n = 0 THEN 0 ELSE CHOOSE k \in 1..15 : 2^(k - 1) <= n /\ n < 2^k

\* the position of the leading one, 0 for zero
TopBit(x) ==
    IF x = FZero THEN 0
    ELSE LET i == CHOOSE j \in 1..Limbs : x[j] # 0 /\ \A l \in (j + 1)..Limbs : x[l] = 0
         IN  15 * (i - 1) + BitLen(x[i])

\* round to nearest, ties to even, at Mantissa significant bits (the d bits
\* that go are fewer than the bits of one digit)
RoundDouble(x) ==
    LET d == TopBit(x) - Mantissa
        gone == x[1] % 2^d
        kept == [x EXCEPT ![1] = @ - gone]
        up == \/ 2 * gone > 2^d
              \/ 2 * gone = 2^d /\ (x[1] \div 2^d) % 2 = 1
    IN  IF d <= 0 THEN x
        ELSE IF up THEN BitsAdd(kept, <<2^d, 0, 0, 0>>)
        ELSE kept

\* a + b on floats
FAdd(a, b) == RoundDouble(BitsAdd(a, b))

RECURSIVE ExactTimes(_, _)
ExactTimes(k, a) == IF k = 0 THEN FZero ELSE BitsAdd(ExactTimes(k - 1, a), a)

\* k * a on floats, k an int: the exact product, rounded once
FMul(k, a) == RoundDouble(ExactTimes(k, a))

\* a >= b on floats
FGe(a, b) ==
    \/ a = b
    \/ \E i \in 1..Limbs : a[i] > b[i] /\ \A j \in (i + 1)..Limbs : a[j] = b[j]

\* one candidate whose fetch fails, one that is persisted, one whose save
\* raises
CostInputs ==
    { inp \in InputsOf("pubmed") :
        /\ inp.fetch # "interrupt"
        /\ ~inp.titleNone
        /\ inp.abstract = Telomerase
        /\ inp.full = NoneText
        /\ inp.tagOc = FailedCall }

CostInit ==
    /\ TagIdle
    /\ ExtIdle
    /\ AggIdle
    /\ TwoIdle
    /\ apipe = "pubmed"
    /\ agent = [NewAgent EXCEPT !.total_cost = FZero]
    /\ out = [f \in OutputFiles |-> Created]
    /\ rpc = "idle"
    /\ pmids = <<>>
    /\ target = 0
    /\ cands = <<>>
    /\ idx = 0
    /\ max_cost = 0
    /\ runs = 0
    /\ attempts = 0
    /\ agents = 1
    /\ last = NoAttempt

CostStartRun ==
    /\ rpc = "idle"
    /\ runs < MaxRuns
    /\ \E n \in 1..MaxCharged, mc \in Ceilings :
          /\ attempts + n <= MaxCharged
          /\ idx' = 0
          /\ RunBegins(SearchResult(n), n, mc)
    /\ UNCHANGED <<procs, apipe, agent, out, attempts, agents, last, tagVars, extVars, aggVars>>

\* lines 514-515 on the double: total_cost += 0.04 where the call returned
\* True, nothing where it returned False or raised
Charged(cost, r) == IF r.ret = "True" THEN FAdd(cost, Increment) ELSE cost

\* lines 606-617 with the double: `if self.stats['total_cost'] >= max_cost_usd`
CostAfterAttempt(r, cost) ==
    IF r.ret = "raised"
    THEN (IF idx + 1 < Len(cands) THEN "attempt" ELSE "finalize")
    ELSE IF FGe(cost, max_cost) THEN "finalize"
    ELSE "sleep"

CostAttemptDoes(inp, r) ==
    /\ agent' = [r.ag EXCEPT !.total_cost = Charged(agent.total_cost, r)]
    /\ out' = r.out
    /\ last' = [fetched |-> inp.fetch # "none", wellFormed |-> WellFormed(inp),
                pid |-> cands[idx + 1], ret |-> r.ret, tags |-> r.tags]
    /\ rpc' = CostAfterAttempt(r, Charged(agent.total_cost, r))

CostAttempt ==
    /\ rpc = "attempt"
    /\ \E inp \in CostInputs :
          CostAttemptDoes(inp, process_paper(apipe, [agent EXCEPT !.total_cost = 0], out,
                                             cands[idx + 1], inp))
    /\ idx' = idx + 1
    /\ attempts' = attempts + 1
    /\ UNCHANGED <<procs, apipe, pmids, target, cands, max_cost, runs, agents, tagVars, extVars,
                   aggVars>>

CostNext == CostStartRun \/ CostAttempt \/ Sleep \/ Finalize

SpecCost == CostInit /\ [][CostNext]_vars

(***************************************************************************)
(* C1: for every title, every text the Paper Processor can pass and every  *)
(* outcome of the model call, tag_theories raises no exception and         *)
(* returns a list with at least one TheoryTag.                             *)
(***************************************************************************)
C1_AlwaysTagsNeverRaises ==
    tpc = "done" => ~result.raised /\ Len(result.tags) >= 1

(***************************************************************************)
(* C8: in every pipeline, when the model call fails, the response cannot   *)
(* be parsed as JSON, a tag object lacks a required field, or the parsed   *)
(* tag list is empty, tag_theories returns exactly the keyword fallback    *)
(* of the paper's text and propagates no error.                            *)
(***************************************************************************)
ParsedOf(pl, oc) ==
    IF pl = "europepmc"
    THEN JsonLoads(EpmcExtractJson(oc.toks), oc.doc)
    ELSE JsonLoads(ExtractJson(oc.toks), oc.doc)

TagListOf(doc) ==
    IF doc.kind = "arr" \/ (doc.kind = "obj" /\ doc.tagsKind = "list")
    THEN doc.items
    ELSE <<>>

LacksField(pl, it) ==
    /\ it.isDict
    /\ \/ it.theory_id.k = "missing"
       \/ it.confidence.k = "missing"
       \/ pl # "europepmc" /\ it.theory_name.k = "missing"

FallbackCase(pl, oc) ==
    \/ oc.fail
    \/ ~ParsedOf(pl, oc).ok
    \/ TagListOf(oc.doc) = <<>>
    \/ \E i \in 1..Len(TagListOf(oc.doc)) : LacksField(pl, TagListOf(oc.doc)[i])

C8_FallbackOnFailure ==
    (tpc = "done" /\ ~text.isNone /\ FallbackCase(pipeline, outcome))
        => result = _infer_theories(text)

C8_PubmedOnly ==
    (tpc = "done" /\ ~text.isNone /\ FallbackCase(pipeline, outcome) /\ pipeline # "europepmc")
        => result = _infer_theories(text)

(***************************************************************************)
(* C2: for every model response the record returned by extract_answers     *)
(* has exactly the keys Q1..Q9; each Qi is the model's value for Qi when   *)
(* that value lies in the domain of Qi, and "No" otherwise.                *)
(***************************************************************************)
\* the value the model gave for q, "" when the response holds none
ModelValue(oc, q) ==
    LET parsed == JsonLoads(AnswersExtractJson(oc.toks), oc.doc)
    IN  IF ~oc.fail /\ parsed.ok /\ oc.doc.kind = "obj" /\ q \in DOMAIN oc.doc.ans
        THEN oc.doc.ans[q]
        ELSE ""

C2_ExactlyNineValidatedKeys ==
    xpc = "done" =>
        /\ ~answers.raised
        /\ DOMAIN answers.ans = QKeys
        /\ \A q \in QKeys :
              answers.ans[q] = IF ModelValue(xoutcome, q) \in ValidFor(q)
                               THEN ModelValue(xoutcome, q)
                               ELSE "No"

\* what does hold: the nine keys are present and validated field by field
C2_NineKeysValidated ==
    xpc = "done" =>
        /\ ~answers.raised
        /\ QKeys \subseteq DOMAIN answers.ans
        /\ \A q \in QKeys :
              answers.ans[q] = IF ModelValue(xoutcome, q) \in ValidFor(q)
                               THEN ModelValue(xoutcome, q)
                               ELSE "No"

(***************************************************************************)
(* Helpers of the aggregation claims: the natural key of a row as it is    *)
(* written on disk, and the rows of the files an aggregation reads.        *)
(***************************************************************************)
NaturalKey(r) == <<r.theory_id, r.paper_name, r.paper_year>>

PapersCols(r) ==
    [theory_id |-> r.theory_id, paper_url |-> r.paper_url,
     paper_name |-> r.paper_name, paper_year |-> r.paper_year]

RowsWithKey(rs, k) == {i \in 1..Len(rs) : NaturalKey(rs[i]) = k}

AggregatedT2 == spc \in {"table3", "table1", "done"}
AggregatedT3 == spc \in {"table1", "done"}

\* the rows the running aggregation of a table found, in scan order
InputRows(fs, oldroot) ==
    LET files == csv_files([root |-> oldroot, exports |-> fs.exports])
    IN  Concat([i \in 1..Len(files) |-> files[i].rows])

ExportRows(fs) == UNION {Range(fs.exports[i].rows) : i \in 1..Len(fs.exports)}

(***************************************************************************)
(* C3: after aggregate_csv has run for the papers table or the             *)
(* annotations table, the written root-level table has no two rows with    *)
(* the same natural key (theory_id, paper_name, paper_year) and no row     *)
(* with theory_id 0.                                                       *)
(***************************************************************************)
UniqueNoZero(f) ==
    /\ \A i, j \in 1..Len(f.rows) : NaturalKey(f.rows[i]) = NaturalKey(f.rows[j]) => i = j
    /\ \A i \in 1..Len(f.rows) : f.rows[i].theory_id # "0"

C3_UniqueKeysNoZero ==
    /\ AggregatedT2 => UniqueNoZero(fs2.root)
    /\ AggregatedT3 => UniqueNoZero(fs3.root)

(***************************************************************************)
(* C4: running the aggregation a second time, with the export files        *)
(* unchanged and the first run's output present, gives root-level papers,  *)
(* annotations and summary tables with the same rows as the first run.     *)
(***************************************************************************)
SameRows(f, g) ==
    /\ f.exists = g.exists
    /\ Len(f.rows) = Len(g.rows)
    /\ Range(f.rows) = Range(g.rows)

C4_SecondRunFixedPoint ==
    (spc = "done" /\ sruns = 2) =>
        /\ SameRows(fs2.root, old.t2)
        /\ SameRows(fs3.root, old.t3)
        /\ SameRows(t1file, old.t1)

(***************************************************************************)
(* C5: when several input rows share the natural key but differ in other   *)
(* columns, the aggregate holds exactly one row for that key, and it is    *)
(* the row met first in file-scan order, then row order.                   *)
(***************************************************************************)
FirstWithKey(rs, k) == rs[CHOOSE i \in RowsWithKey(rs, k) : \A j \in RowsWithKey(rs, k) : i <= j]

SharedKeys(rs) ==
    {NaturalKey(rs[i]) : i \in {i \in 1..Len(rs) :
        \E j \in 1..Len(rs) : NaturalKey(rs[j]) = NaturalKey(rs[i]) /\ rs[j] # rs[i]}}

C5_KeepsFirstOfSharedKey ==
    AggregatedT2 =>
        \A k \in SharedKeys(InputRows(fs2, old.t2)) :
            /\ Cardinality(RowsWithKey(fs2.root.rows, k)) = 1
            /\ \A i \in RowsWithKey(fs2.root.rows, k) :
                  fs2.root.rows[i] = FirstWithKey(InputRows(fs2, old.t2), k)

(***************************************************************************)
(* C6: after the script completes, table1 is regenerated from the          *)
(* aggregated papers table: one row for each theory_id occurring there,    *)
(* with the number of its rows, and no other row, whatever summary file    *)
(* existed before and also when the aggregated papers table is empty.      *)
(***************************************************************************)
IdsOf(rs) == {rs[i].theory_id : i \in 1..Len(rs)}

C6_SummaryRegenerated ==
    spc = "done" =>
        /\ IdsOf(t1file.rows) = IdsOf(fs2.root.rows)
        /\ \A i, j \in 1..Len(t1file.rows) :
              t1file.rows[i].theory_id = t1file.rows[j].theory_id => i = j
        /\ \A i \in 1..Len(t1file.rows) :
              t1file.rows[i].number_of_collected_papers =
                  Cardinality({j \in 1..Len(fs2.root.rows) :
                                  fs2.root.rows[j].theory_id = t1file.rows[i].theory_id})

(***************************************************************************)
(* C7: the root-level aggregate is determined only by the per-run export   *)
(* files: a row that is only in a previously written root-level aggregate  *)
(* and in no per-run export is not in the newly written aggregate.         *)
(***************************************************************************)
C7_OnlyExportRows ==
    AggregatedT2 => Range(fs2.root.rows) \subseteq ExportRows(fs2)

(***************************************************************************)
(* C9: when fetch_metadata returns no record for a candidate, process_paper *)
(* returns False, no output file, theory_papers, papers_processed or       *)
(* total_cost changes, and the run goes on with the next candidate (the    *)
(* loop reaches its inter-paper delay instead of leaving for the           *)
(* finalization) whenever a next candidate exists.                         *)
(***************************************************************************)
AttemptStep == rpc = "attempt" /\ attempts' = attempts + 1

C9_FetchFailureSkipsPaper ==
    [][(AttemptStep /\ ~last'.fetched) =>
          /\ last'.ret = "False"
          /\ out' = out
          /\ agent' = agent
          /\ (idx' < Len(cands) => rpc' = "sleep")]_vars

(***************************************************************************)
(* C10: a process_paper call that returns True appends exactly one row to  *)
(* the papers table, with the theory_id of a tag of greatest confidence;   *)
(* exactly one row to the annotations table, with the same theory_id,      *)
(* paper_url, paper_name and paper_year and with Q1..Q9; one row per tag   *)
(* of the paper, in order, to the theory-tags table; and exactly one row   *)
(* to the metadata table.  Rows written earlier stay as they are.          *)
(***************************************************************************)
LastRow(rows) == rows[Len(rows)]

IsGreatest(tags, i) ==
    \A j \in 1..Len(tags) : tags[j].confidence.v <= tags[i].confidence.v

C10_OneRowPerTable ==
    [][(AttemptStep /\ last'.ret = "True") =>
          LET md == Metadata(cands[idx + 1])
              tags == last'.tags
              r2 == LastRow(out'["t2"].rows)
              r3 == LastRow(out'["t3"].rows)
              n == Len(out["tags"].rows)
          IN  /\ out'["t2"].rows = Append(out["t2"].rows, r2)
              /\ \E i \in 1..Len(tags) : IsGreatest(tags, i) /\ r2.theory_id = tags[i].theory_id
              /\ r2.paper_url = md.url /\ r2.paper_name = md.title /\ r2.paper_year = md.year
              /\ out'["t3"].rows = Append(out["t3"].rows, r3)
              /\ r3.theory_id = r2.theory_id /\ r3.paper_url = r2.paper_url
              /\ r3.paper_name = r2.paper_name /\ r3.paper_year = r2.paper_year
              /\ DOMAIN r3.Q = QKeys
              /\ Len(out'["tags"].rows) = n + Len(tags)
              /\ SubSeq(out'["tags"].rows, 1, n) = out["tags"].rows
              /\ \A i \in 1..Len(tags) :
                    /\ out'["tags"].rows[n + i].paper_url = md.url
                    /\ out'["tags"].rows[n + i].theory_id = tags[i].theory_id
              /\ out'["meta"].rows = Append(out["meta"].rows, LastRow(out'["meta"].rows))
              /\ LastRow(out'["meta"].rows).paper_url = md.url]_vars

\* a paper with two tags, the second of greater confidence, has been saved
C10_Witness ==
    /\ last.ret = "True"
    /\ Len(last.tags) = 2
    /\ last.tags[1].confidence.v < last.tags[2].confidence.v
    /\ Len(out["t2"].rows) >= 1
    /\ LastRow(out["t2"].rows).theory_id = last.tags[2].theory_id
    /\ Len(out["tags"].rows) >= 2

(***************************************************************************)
(* C11: an exception that process_paper raises for a candidate does not    *)
(* leave run(): the loop is still in the same run, it goes straight to the *)
(* next candidate when there is one (no budget check and no delay in       *)
(* between) and to finalize_table1 when there is none.                     *)
(***************************************************************************)
C11_ExceptionStaysInRun ==
    [][(AttemptStep /\ last'.ret = "raised") =>
          /\ runs' = runs
          /\ cands' = cands
          /\ idx' = idx + 1
          /\ rpc' = IF idx' < Len(cands) THEN "attempt" ELSE "finalize"]_vars

\* the first of two candidates has raised and the second is about to be
\* attempted
C11_Witness ==
    /\ last.ret = "raised"
    /\ rpc = "attempt"
    /\ idx = 1
    /\ Len(cands) = 2

(***************************************************************************)
(* C12: a paper attempt is started only while the cumulative cost of the   *)
(* agent is below max_cost, whatever max_cost >= 0 the run was given and   *)
(* whatever cost the agent carried when the run started.                   *)
(***************************************************************************)
C12_AttemptOnlyBelowCeiling ==
    [][AttemptStep => agent.total_cost < max_cost]_vars

(***************************************************************************)
(* C13: a user interrupt that arrives in the run loop, while a paper is    *)
(* processed or during the delay between two papers, ends the processing   *)
(* of candidates and leads to finalize_table1: an interrupted attempt is   *)
(* followed by the finalization, and the delay is left only for the next   *)
(* attempt or for the finalization.                                        *)
(***************************************************************************)
C13_InterruptStillFinalizes ==
    [][/\ (AttemptStep /\ last'.ret = "interrupted") => rpc' = "finalize"
       /\ (rpc = "sleep" /\ rpc' # "sleep") => rpc' \in {"attempt", "finalize"}]_vars

(***************************************************************************)
(* C14: a call of run() returns only through finalize_table1, which        *)
(* appends one summary row per theory of the index, and no other step of   *)
(* a run in progress writes the summary table; in every pipeline and for   *)
(* every search result, the empty one included.                            *)
(***************************************************************************)
C14_ReturnsThroughFinalize ==
    [][/\ runs' = runs + 1 =>
             /\ rpc = "finalize"
             /\ Len(out'["t1"].rows) = Len(out["t1"].rows) + Len(agent.theory_papers)
       /\ (rpc \in {"attempt", "sleep"} => out'["t1"] = out["t1"])]_vars

(***************************************************************************)
(* C15: the k-th attempt of a run processes the k-th entry of the search   *)
(* result, with k <= target_papers: candidates are attempted in the order  *)
(* of the search, one attempt per entry, and no entry ranked beyond        *)
(* target_papers is attempted, whatever the earlier attempts gave.         *)
(***************************************************************************)
C15_FirstTargetInOrder ==
    [][/\ AttemptStep =>
             /\ idx' = idx + 1
             /\ idx' <= target
             /\ idx' <= Len(pmids)
             /\ last'.pid = pmids[idx']
             /\ pmids' = pmids
             /\ target' = target
       /\ (rpc = "sleep" /\ rpc' = "attempt") =>
             (idx' = idx /\ pmids' = pmids /\ target' = target)]_vars

\* the search gave more entries than target_papers, the last candidate
\* within target_papers has raised, and the loop is over
C15_Witness ==
    /\ Len(pmids) > target
    /\ idx = target
    /\ last.ret = "raised"
    /\ rpc = "finalize"

(***************************************************************************)
(* C16: for every text the Paper Processor passes (a string) and every     *)
(* outcome of the model call, extract_answers raises no exception; when    *)
(* the call fails, the reply is not parseable JSON or the parsed value is  *)
(* no JSON object, it returns the record with Q1..Q9 all "No".             *)
(***************************************************************************)
XParsed(oc) == JsonLoads(AnswersExtractJson(oc.toks), oc.doc)

XFailure(oc) == oc.fail \/ ~XParsed(oc).ok \/ XParsed(oc).val.kind # "obj"

C16_NoRaiseAllNoOnFailure ==
    xpc = "done" =>
        /\ ~answers.raised
        /\ XFailure(xoutcome) => answers.ans = AllNo

\* the reply was parseable JSON but no object, and the record is all "No"
C16_Witness ==
    /\ xpc = "done"
    /\ ~xoutcome.fail
    /\ XParsed(xoutcome).ok
    /\ XParsed(xoutcome).val.kind # "obj"
    /\ ~answers.raised
    /\ answers.ans = AllNo

(***************************************************************************)
(* C17: the output files are append-only with a single header.  Whatever   *)
(* the agent does (construction, process_paper, finalize_table1), a file   *)
(* that exists keeps existing, keeps its one header row, and its rows      *)
(* after the step begin with its rows before the step; every file that     *)
(* exists has exactly one header row; and the construction of an agent in  *)
(* a directory whose files all exist changes no file.                      *)
(***************************************************************************)
IsPrefix(a, b) == Len(a) <= Len(b) /\ SubSeq(b, 1, Len(a)) = a

C17_AppendOnlySingleHeader ==
    [][/\ \A f \in OutputFiles :
             /\ out[f].exists =>
                   /\ out'[f].exists
                   /\ out'[f].header = out[f].header
                   /\ IsPrefix(out[f].rows, out'[f].rows)
             /\ out'[f].exists => out'[f].header = 1
       /\ (agents' = agents + 1 /\ \A f \in OutputFiles : out[f].exists) => out' = out]_vars

\* a second agent has been constructed in a directory whose tables hold
\* the rows of a paper and of a finalization
C17_Witness ==
    /\ agents = 2
    /\ agent = NewAgent
    /\ Len(out["t2"].rows) >= 1
    /\ Len(out["t1"].rows) >= 1
    /\ \A f \in OutputFiles : out[f].exists /\ out[f].header = 1

(***************************************************************************)
(* C18: a discovered file that cannot be read is skipped.  What            *)
(* aggregate_csv returns, and what it writes at the root, is what it       *)
(* returns and writes for the same tree without the unreadable files (the  *)
(* root-level file staying as it is when no file could be read); and the   *)
(* script goes on to the next table.                                       *)
(***************************************************************************)
ReadableFile(f) == IF f.exists /\ ~f.readable THEN NoFile ELSE f

ReadableOnly(fs) ==
    [root |-> ReadableFile(fs.root),
     exports |-> [i \in 1..Len(fs.exports) |-> ReadableFile(fs.exports[i])]]

RootSkipsUnreadable(fs, root) ==
    root = IF Loaded(fs) = <<>> THEN fs.root ELSE aggregate_csv(ReadableOnly(fs)).root

C18_UnreadableFileSkipped ==
    [][/\ spc = "table2" =>
             /\ table2' = aggregate_csv(ReadableOnly(fs2)).df
             /\ RootSkipsUnreadable(fs2, fs2'.root)
             /\ spc' = "table3"
       /\ spc = "table3" =>
             /\ RootSkipsUnreadable(fs3, fs3'.root)
             /\ spc' = "table1"]_vars

\* the first run directory's papers file could not be read, the second
\* one's could, and the aggregate holds its rows
C18_Witness ==
    /\ spc = "table3"
    /\ Len(fs2.exports) >= 2
    /\ fs2.exports[1] = Unreadable
    /\ fs2.exports[2].readable
    /\ Len(table2) >= 1
    /\ fs2.root.readable
    /\ Len(fs2.root.rows) = Len(table2)

(***************************************************************************)
(* C19: once fetch_metadata has given a record (with a title, a text and   *)
(* author names that are strings) and no interrupt arrives, process_paper  *)
(* returns True and has written the paper's rows to the papers,            *)
(* annotations and metadata tables, whatever the two model calls gave.     *)
(***************************************************************************)
C19_ModelOutcomesNeverBlock ==
    [][(AttemptStep /\ last'.fetched /\ last'.wellFormed /\ last'.ret # "interrupted") =>
          /\ last'.ret = "True"
          /\ Len(out'["t2"].rows) = Len(out["t2"].rows) + 1
          /\ Len(out'["t3"].rows) = Len(out["t3"].rows) + 1
          /\ Len(out'["meta"].rows) = Len(out["meta"].rows) + 1]_vars

(***************************************************************************)
(* C20: every TheoryTag that tag_theories returns has a theory_id that is  *)
(* a number in 0..10, a confidence that is a number in [0,1] (0..100 in    *)
(* hundredths) and a provenance among full_text, abstract,                 *)
(* keyword_inference, default and error, whatever the fields of the model  *)
(* reply hold.                                                             *)
(***************************************************************************)
Provenances == {"full_text", "abstract", "keyword_inference", "default", "error"}

InSchema(tag) ==
    /\ tag.theory_id.k = "num"
    /\ tag.theory_id.v \in 0..10
    /\ tag.confidence.k = "num"
    /\ tag.confidence.v \in 0..100
    /\ tag.source \in Provenances

C20_TagsInSchema ==
    (tpc = "done" /\ ~result.raised) =>
        \A i \in 1..Len(result.tags) : InSchema(result.tags[i])

(***************************************************************************)
(* C21: _infer_theories returns one tag for each theory of the keyword     *)
(* table, and only for those, that has a keyword occurring in the lowered  *)
(* text: no id twice, in the order 1,2,3,4,8,9 of the table, each with     *)
(* confidence 0.6 and provenance keyword_inference; when no keyword        *)
(* occurs, and only then, it returns the single tag theory_id 0, "General  *)
(* Aging Research", confidence 0.5, provenance default.                    *)
(***************************************************************************)
CoveredIds == {1, 2, 3, 4, 8, 9}

Occurs(id, cs) ==
    \E i \in 1..Len(keywords) :
        /\ keywords[i].id = id
        /\ \E j \in 1..Len(keywords[i].kws) : Contains(Lower(cs), keywords[i].kws[j])

Matched(cs) == {id \in CoveredIds : Occurs(id, cs)}

KeywordTags(tags, M) ==
    /\ Len(tags) = Cardinality(M)
    /\ {tags[i].theory_id.v : i \in 1..Len(tags)} = M
    /\ \A i \in 1..Len(tags) :
          /\ tags[i].theory_id.k = "num"
          /\ tags[i].theory_name = StrV(tags[i].theory_id.v)
          /\ tags[i].confidence = Num(60)
          /\ tags[i].source = "keyword_inference"
          /\ \A j \in 1..(i - 1) : tags[j].theory_id.v < tags[i].theory_id.v

SentinelOnly(tags) ==
    /\ Len(tags) = 1
    /\ tags[1].theory_id = Num(0)
    /\ tags[1].theory_name = StrV(0)
    /\ tags[1].confidence = Num(50)
    /\ tags[1].source = "default"

C21_KeywordFallback ==
    tpc = "done" =>
        /\ ~result.raised
        /\ IF Matched(text.chars) = {}
           THEN SentinelOnly(result.tags)
           ELSE KeywordTags(result.tags, Matched(text.chars))

\* a text in which two keywords of one theory and a keyword of another
\* theory occur, in capitals, has given two tags
C21_Witness ==
    /\ tpc = "done"
    /\ text.chars = <<"m","i","t","o","c","h","o","n","d","r","i","a","l"," ","R","O","S">>
    /\ Len(result.tags) = 2
    /\ result.tags[1].theory_id = Num(1)
    /\ result.tags[2].theory_id = Num(3)

(***************************************************************************)
(* C22: when the reply of the model holds one well-formed JSON object      *)
(* whose theory_tags is a non-empty list of well-formed items (bare, in a  *)
(* fenced block with or without the json label, with prose before or       *)
(* after it), the PubMed-bodied tag_theories returns the tags of that      *)
(* object, one per item and in the order of the items, and not the tags    *)
(* of the keyword fallback.                                                *)
(***************************************************************************)
HoldsOneObject(toks) ==
    /\ Contains(toks, ObjText)
    /\ Cardinality({i \in 1..Len(toks) : toks[i] = "{"}) = 1

WellFormedTags(doc) ==
    /\ doc.kind = "obj"
    /\ doc.tagsKind = "list"
    /\ doc.items # <<>>
    /\ \A i \in 1..Len(doc.items) : ~ItemRaises(doc.items[i])

TagsOfReply(tags, doc) ==
    /\ Len(tags) = Len(doc.items)
    /\ \A i \in 1..Len(tags) :
          /\ tags[i].theory_id = doc.items[i].theory_id
          /\ tags[i].theory_name = doc.items[i].theory_name
          /\ tags[i].confidence = doc.items[i].confidence
          /\ tags[i].source \in {"full_text", "abstract"}

C22_WrappedObjectParsed ==
    (/\ tpc = "done"
     /\ pipeline # "europepmc"
     /\ ~text.isNone
     /\ ~outcome.fail
     /\ HoldsOneObject(outcome.toks)
     /\ WellFormedTags(outcome.doc))
    => (~result.raised /\ TagsOfReply(result.tags, outcome.doc))

(***************************************************************************)
(* C23: the theory_id of the papers row and of the annotations row of a    *)
(* persisted paper, and the key under which its URL enters theory_papers,  *)
(* is that of the first tag, in the order of the returned list, among the  *)
(* tags of the greatest confidence.                                        *)
(***************************************************************************)
FirstGreatest(tags, i) ==
    /\ \A j \in 1..Len(tags) : tags[j].confidence.v <= tags[i].confidence.v
    /\ \A j \in 1..(i - 1) : tags[j].confidence.v < tags[i].confidence.v

IndexedUnder(tp, id, url) ==
    \E k \in 1..Len(tp) :
        /\ tp[k].id = id
        /\ Len(tp[k].papers) >= 1
        /\ tp[k].papers[Len(tp[k].papers)] = url

C23_PrimaryIsFirstGreatest ==
    [][(AttemptStep /\ last'.ret = "True") =>
          \E i \in 1..Len(last'.tags) :
              /\ FirstGreatest(last'.tags, i)
              /\ LastRow(out'["t2"].rows).theory_id = last'.tags[i].theory_id
              /\ LastRow(out'["t3"].rows).theory_id = last'.tags[i].theory_id
              /\ IndexedUnder(agent'.theory_papers, last'.tags[i].theory_id,
                              Metadata(cands[idx + 1]).url)
              /\ \A k \in 1..Len(agent'.theory_papers) :
                    agent'.theory_papers[k].id # last'.tags[i].theory_id =>
                        agent'.theory_papers[k] \in Range(agent.theory_papers)]_vars

\* two tags of equal confidence: the paper went to the theory of the first
C23_Witness ==
    /\ last.ret = "True"
    /\ Len(last.tags) = 2
    /\ last.tags[1].confidence = last.tags[2].confidence
    /\ last.tags[1].theory_id # last.tags[2].theory_id
    /\ LastRow(out["t2"].rows).theory_id = last.tags[1].theory_id

\* keyword fallback with two matching theories: the paper went to the one
\* that stands first in the keyword table
C23_WitnessFallback ==
    /\ last.ret = "True"
    /\ Len(last.tags) = 2
    /\ last.tags[1].source = "keyword_inference"
    /\ last.tags[1].theory_id = Num(2)
    /\ last.tags[2].theory_id = Num(4)
    /\ LastRow(out["t2"].rows).theory_id = Num(2)

(***************************************************************************)
(* C24: with two agents running at the same time on one output directory,  *)
(* whatever the interleaving of their existence tests, header writes and   *)
(* appends, every row an agent has appended is still in its file and every *)
(* file that exists has exactly one header row.                            *)
(***************************************************************************)
RowsKept(p, f) == \A r \in procs[p].wrote[f] : \E j \in 1..Len(out[f].rows) : out[f].rows[j] = r

C24_ConcurrentRowsKept ==
    procs # <<>> =>
        \A f \in OutputFiles :
            /\ out[f].exists => out[f].header = 1
            /\ \A p \in TwoAgents : RowsKept(p, f)

(***************************************************************************)
(* C25: within a run, a call of process_paper is never followed directly   *)
(* by the next call: whether it returned True, returned False or raised,   *)
(* the delay comes first whenever another candidate is attempted.          *)
(***************************************************************************)
C25_DelayBetweenAttempts ==
    [][AttemptStep => rpc' # "attempt"]_vars

(***************************************************************************)
(* C26: while the first agent constructed on a fresh output directory is   *)
(* the only one that has written to it, the papers table, the annotations  *)
(* table and the metadata table hold the same number of data rows, and     *)
(* that number is papers_processed; whatever the calls of process_paper    *)
(* returned or raised.                                                     *)
(***************************************************************************)
DataRows(f) == Len(out[f].rows)

C26_PersistAllOrNothing ==
    agents = 1 =>
        /\ DataRows("t2") = agent.papers_processed
        /\ DataRows("t3") = agent.papers_processed
        /\ DataRows("meta") = agent.papers_processed

(***************************************************************************)
(* C27: in every state of an agent's life total_cost is the per-paper      *)
(* increment times papers_processed: the product 0.04 * papers_processed   *)
(* of the float and the int; across failed fetches, raised calls and       *)
(* successive runs.                                                        *)
(***************************************************************************)
C27_CostIsFlatCharge ==
    agent.total_cost = FMul(agent.papers_processed, Increment)

(***************************************************************************)
(* C28: theory_papers counts the papers rows of the live agent.  A         *)
(* construction starts with an empty index; in every other step, for every *)
(* theory id, the list of the index grows by as many entries as the papers *)
(* table gains rows of that id; finalize_table1 appends one summary row    *)
(* per key of the index with the length of its list and leaves the index   *)
(* as it is.  Hence for the first agent of a directory the lists are the   *)
(* URLs of the papers rows of each theory, in order, over all its runs.    *)
(***************************************************************************)
IndexKeys(ag) == {ag.theory_papers[i].id : i \in 1..Len(ag.theory_papers)}

PapersOf(ag, id) ==
    IF id \in IndexKeys(ag)
    THEN (CHOOSE e \in Range(ag.theory_papers) : e.id = id).papers
    ELSE <<>>

RowsOfTheory(rows, id) == SelectSeq(rows, LAMBDA r : r.theory_id = id)

UrlsOf(rows) == [i \in 1..Len(rows) |-> rows[i].paper_url]

IndexIsPapersTable ==
    /\ \A i \in 1..Len(out["t2"].rows) : out["t2"].rows[i].theory_id \in IndexKeys(agent)
    /\ \A id \in IndexKeys(agent) : PapersOf(agent, id) = UrlsOf(RowsOfTheory(out["t2"].rows, id))
    /\ \A i, j \in 1..Len(agent.theory_papers) :
          agent.theory_papers[i].id = agent.theory_papers[j].id => i = j

SummaryOf(ag) ==
    [i \in 1..Len(ag.theory_papers) |->
        [theory_id |-> ag.theory_papers[i].id,
         number_of_collected_papers |-> Len(ag.theory_papers[i].papers)]]

SummaryPart(rows) ==
    [i \in 1..Len(rows) |->
        [theory_id |-> rows[i].theory_id,
         number_of_collected_papers |-> rows[i].number_of_collected_papers]]

C29_FullTextLabelMeansFullText ==
    \A r \in Range(out["tags"].rows) : \A m \in Range(out["meta"].rows) :
        (r.source = "full_text" /\ m.paper_url = r.paper_url) =>
            (m.has_full_text /\ m.overall_confidence = "high")

(***************************************************************************)
(* C30: in the Europe PMC agent, when the model's reply is a JSON array    *)
(* whose items each carry a theory_id of the taxonomy and a numeric        *)
(* confidence, tag_theories returns one tag per item with that theory_id   *)
(* and that confidence and provenance abstract or full_text; it returns    *)
(* neither the default tag nor the error tag.                              *)
(***************************************************************************)
TaxonomyArray(doc) ==
    /\ doc.kind = "arr"
    /\ doc.items # <<>>
    /\ \A i \in 1..Len(doc.items) :
          /\ doc.items[i].isDict
          /\ EpmcInTheories(doc.items[i].theory_id)
          /\ doc.items[i].confidence.k = "num"

C30_EpmcKeepsModelTags ==
    (/\ tpc = "done"
     /\ pipeline = "europepmc"
     /\ ~text.isNone
     /\ ~outcome.fail
     /\ outcome.toks = <<"A">>
     /\ TaxonomyArray(outcome.doc))
    => /\ ~result.raised
       /\ Len(result.tags) = Len(outcome.doc.items)
       /\ \A i \in 1..Len(result.tags) :
             /\ result.tags[i].theory_id = outcome.doc.items[i].theory_id
             /\ result.tags[i].confidence = outcome.doc.items[i].confidence
             /\ result.tags[i].source \in {"full_text", "abstract"}

====
